---- MODULE Spec2Model ----
(***************************************************************************)
(* State-machine model of src/server.js: the authoritative game server.    *)
(* One action per socket event handler (connection, playerMovement,        *)
(* pickupItem, attack, tradeRequest, acceptTrade, declineTrade,            *)
(* disconnect) and one for the setInterval game loop (updateEnemies        *)
(* followed by broadcastEnemies).  Node runs each handler and each tick to *)
(* completion, so every action is one atomic step.                         *)
(*                                                                         *)
(* Conventions.  Ids are pairs <<kind, n>>: <<"s", n>> is a socket id,     *)
(* <<"enemy", n>> is the key `enemy${n}`, <<"item", n>> the key            *)
(* `item${n}`.  socket.io draws a fresh id per connection, so socket ids   *)
(* are handed out in order and never reused.  Coordinates are integers in  *)
(* world units and time is in milliseconds.  JavaScript arrays are 0-based *)
(* and TLA+ sequences 1-based: inventory slot i of the code is element     *)
(* i + 1 of the sequence.                                                  *)
(*                                                                         *)
(* Payloads.  Clients send what they like, within the types of the         *)
(* protocol: an id names a Player, an Enemy, an item or nothing; an        *)
(* inventory index, a damage and a health are integers of any sign.        *)
(* Payloads of another type (a property name such as "length" in place of  *)
(* an index, a key of Object.prototype in place of an id) are outside the  *)
(* model.                                                                  *)
(***************************************************************************)
EXTENDS Integers, Sequences, FiniteSets, TLC

VARIABLES
  players,     \* src/server.js:109  players = {}  (socket id -> Player)
  items,       \* src/server.js:110  items = {}    (ids of the items lying in the world)
  enemies,     \* src/server.js:111  enemies = {}  (enemy id -> Enemy)
  sockets,     \* io.sockets.sockets: the connections whose close has not been notified yet
  closing,     \* the connections on which the server has called disconnect(true)
  nextSocket,  \* number of connections accepted so far (the next fresh socket id)
  lastUpdateTime, \* src/server.js:644
  crashed,     \* TRUE once a handler has thrown (uncaught TypeError ends the process)
  events       \* movement reports, attacks and ticks that changed the state so far
               \* (bounds the exploration only)

vars == <<players, items, enemies, sockets, closing, nextSocket, lastUpdateTime, crashed, events>>

----------------------------------------------------------------------------
(* Bounds of the model *)

\* connections accepted over a run
MaxSockets == 2
\* items generated at start-up (the code generates 50)
NumItems == 2
\* enemies created at start-up (the code creates 20)
NumEnemies == 1
\* movement reports, attacks and ticks that change the state, over a run
MaxEvents == 3

----------------------------------------------------------------------------
(* Program constants *)

TILE_WALL == 1
TILE_DOOR == 2
TILE_FLOOR == 3
TILE_SIZE == 64
WorldTiles == 200
DIR_DOWN == 0
DIR_LEFT == 1
DIR_RIGHT == 2
DIR_UP == 3
PlayerMaxHealth == 100
EnemyMaxHealth == 50
EnemySpeed == 100
EnemySize == 64
DefaultDamage == 10
EnemyDamage == 10
KillReward == 10
AggroRadius == 500
MeleeRange == 50
AttackCooldownMs == 1000

----------------------------------------------------------------------------
(* Ids *)

SocketId(n) == <<"s", n>>
EnemyId(n) == <<"enemy", n>>
ItemId(n) == <<"item", n>>
SocketIds == { SocketId(n) : n \in 1..MaxSockets }
EnemyIds == { EnemyId(n) : n \in 0..(NumEnemies - 1) }
ItemIds == { ItemId(n) : n \in 0..(NumItems - 1) }
\* an id that is the key of nothing
NoId == <<"none", 0>>
\* the ids a client may name as the target of an attack
TargetIds == SocketIds \cup EnemyIds \cup {NoId}

----------------------------------------------------------------------------
(* Items: generateItems gives every item a type and the attribute of that  *)
(* type.  The draw modelled here: even ids are shields, odd ids swords.    *)

ItemType(id) == IF id[2] % 2 = 0 THEN "shield" ELSE "sword"

ItemDefense(id) == 5 + ((id[2] \div 2) % 5)

ItemDamage(id) == 10 + ((7 * id[2]) % 20)

----------------------------------------------------------------------------
(* World map *)

Room(x, y, w, h) == [x |-> x, y |-> y, width |-> w, height |-> h]

Rooms == << Room(20, 20, 40, 40), Room(80, 80, 60, 60), Room(20, 120, 50, 50), Room(120, 20, 60, 40) >>

Corridors == << <<50, 30, 80, 30>>, <<30, 50, 30, 120>>, <<130, 50, 130, 80>>, <<70, 110, 120, 110>> >>

Abs(n) == IF n < 0 THEN -n ELSE n

Max(a, b) == IF a >= b THEN a ELSE b

\* Math.round(p / q) for q > 0: the nearest integer, halves rounded up
RoundDiv(p, q) == (2 * p + q) \div (2 * q)

\* Math.floor(p / q) for q > 0 (\div of TLA+ rounds down)
FloorDiv(p, q) == p \div q

InRoom(r, tx, ty) == /\ tx >= r.x /\ tx < r.x + r.width
                     /\ ty >= r.y /\ ty < r.y + r.height

RoomTile(r, tx, ty) ==
  IF tx = r.x /\ ty = r.y + (r.height \div 2) THEN TILE_DOOR
  ELSE IF ty = r.y \/ ty = r.y + r.height - 1 \/ tx = r.x \/ tx = r.x + r.width - 1
       THEN TILE_WALL
       ELSE TILE_FLOOR

\* the cells createCorridor(x1, y1, x2, y2) turns into floor
CorridorCells(c) ==
  LET dx == c[3] - c[1]
      dy == c[4] - c[2]
      length == Max(Abs(dx), Abs(dy))
  IN { << c[1] + RoundDiv(i * dx, length), c[2] + RoundDiv(i * dy, length) >> : i \in 0..length }

AllCorridorCells == UNION { CorridorCells(Corridors[k]) : k \in 1..Len(Corridors) }

\* the tile initializeGameWorld leaves in cell (tx, ty): the border, then the
\* rooms in order, then the corridors (a later write wins)
GeneratedTile(tx, ty) ==
  IF <<tx, ty>> \in AllCorridorCells THEN TILE_FLOOR
  ELSE IF \E k \in 1..Len(Rooms) : InRoom(Rooms[k], tx, ty)
       THEN LET k == CHOOSE j \in 1..Len(Rooms) :
                       /\ InRoom(Rooms[j], tx, ty)
                       /\ \A m \in 1..Len(Rooms) : InRoom(Rooms[m], tx, ty) => m <= j
            IN RoomTile(Rooms[k], tx, ty)
       ELSE IF tx = 0 \/ tx = WorldTiles - 1 \/ ty = 0 \/ ty = WorldTiles - 1
            THEN TILE_WALL
            ELSE TILE_FLOOR

\* the grid, built once at start-up and never written again
gameWorld == [ty \in 0..(WorldTiles - 1) |-> [tx \in 0..(WorldTiles - 1) |-> GeneratedTile(tx, ty)]]

\* a variant of getTileAt that takes what lies outside the grid for floor
getTileAt_OpenOutside(x, y) ==
  LET tileX == FloorDiv(x, TILE_SIZE)
      tileY == FloorDiv(y, TILE_SIZE)
  IN IF tileX < 0 \/ tileX >= WorldTiles \/ tileY < 0 \/ tileY >= WorldTiles
     THEN TILE_FLOOR
     ELSE gameWorld[tileY][tileX]

\* lines 181-188
getTileAt(x, y) ==
  LET tileX == FloorDiv(x, TILE_SIZE)
      tileY == FloorDiv(y, TILE_SIZE)
  IN IF tileX < 0 \/ tileX >= WorldTiles \/ tileY < 0 \/ tileY >= WorldTiles
     THEN TILE_WALL
     ELSE gameWorld[tileY][tileX]

----------------------------------------------------------------------------
(* The client's copy of the world map: src/game.js:54-61, 159-208, 426-433 *)

\* WORLD_WIDTH and WORLD_HEIGHT of the client, which counts them in tiles
ClientWorldTiles == 200

ClientTileSize == 64

CLIENT_TILE_WALL == 1

CLIENT_TILE_DOOR == 2

CLIENT_TILE_FLOOR == 3

ClientRooms == << Room(20, 20, 40, 40), Room(80, 80, 60, 60), Room(20, 120, 50, 50), Room(120, 20, 60, 40) >>

ClientCorridors == << <<50, 30, 80, 30>>, <<30, 50, 30, 120>>, <<130, 50, 130, 80>>, <<70, 110, 120, 110>> >>

\* a variant of ClientRoomTile that puts the door on the right edge of the room
ClientRoomTile_DoorOnRight(r, tx, ty) ==
  IF ty = r.y + (r.height \div 2) /\ tx = r.x + r.width - 1 THEN CLIENT_TILE_DOOR
  ELSE IF ty = r.y \/ ty = r.y + r.height - 1 \/ tx = r.x \/ tx = r.x + r.width - 1
       THEN CLIENT_TILE_WALL
       ELSE CLIENT_TILE_FLOOR

\* createRoom of the client: what it writes in cell (tx, ty) of the room r
ClientRoomTile(r, tx, ty) ==
  IF ty = r.y + (r.height \div 2) /\ tx = r.x THEN CLIENT_TILE_DOOR
  ELSE IF ty = r.y \/ ty = r.y + r.height - 1 \/ tx = r.x \/ tx = r.x + r.width - 1
       THEN CLIENT_TILE_WALL
       ELSE CLIENT_TILE_FLOOR

\* createCorridor of the client: the cells it turns into floor
ClientCorridorCells(c) ==
  LET dx == c[3] - c[1]
      dy == c[4] - c[2]
      length == Max(Abs(dx), Abs(dy))
  IN { << c[1] + RoundDiv(i * dx, length), c[2] + RoundDiv(i * dy, length) >> : i \in 0..length }

ClientAllCorridorCells == UNION { ClientCorridorCells(ClientCorridors[k]) : k \in 1..Len(ClientCorridors) }

\* initializeGameWorld of the client: the border, the rooms in order, the
\* corridors in order (a later write wins)
ClientGeneratedTile(tx, ty) ==
  IF <<tx, ty>> \in ClientAllCorridorCells THEN CLIENT_TILE_FLOOR
  ELSE IF \E k \in 1..Len(ClientRooms) : InRoom(ClientRooms[k], tx, ty)
       THEN LET k == CHOOSE j \in 1..Len(ClientRooms) :
                       /\ InRoom(ClientRooms[j], tx, ty)
                       /\ \A m \in 1..Len(ClientRooms) : InRoom(ClientRooms[m], tx, ty) => m <= j
            IN ClientRoomTile(ClientRooms[k], tx, ty)
       ELSE IF tx = 0 \/ tx = ClientWorldTiles - 1 \/ ty = 0 \/ ty = ClientWorldTiles - 1
            THEN CLIENT_TILE_WALL
            ELSE CLIENT_TILE_FLOOR

clientGameWorld ==
  [ty \in 0..(ClientWorldTiles - 1) |-> [tx \in 0..(ClientWorldTiles - 1) |-> ClientGeneratedTile(tx, ty)]]

\* getTileAt of the client, lines 426-433
clientGetTileAt(x, y) ==
  LET tileX == FloorDiv(x, ClientTileSize)
      tileY == FloorDiv(y, ClientTileSize)
  IN IF tileX < 0 \/ tileX >= ClientWorldTiles \/ tileY < 0 \/ tileY >= ClientWorldTiles
     THEN CLIENT_TILE_WALL
     ELSE clientGameWorld[tileY][tileX]

SafeZone == [x |-> 25 * TILE_SIZE, y |-> 25 * TILE_SIZE, width |-> 30 * TILE_SIZE, height |-> 30 * TILE_SIZE]

isInSafeZone(x, y) ==
  /\ x >= SafeZone.x /\ x <= SafeZone.x + SafeZone.width
  /\ y >= SafeZone.y /\ y <= SafeZone.y + SafeZone.height

----------------------------------------------------------------------------
(* Events sent to clients.  `to` is <<"all", 0>> for io.emit, a socket id  *)
(* for socket.emit / io.to(id).emit, and <<"others", n>> for               *)
(* socket.broadcast.emit of socket n.                                      *)

ToAll == <<"all", 0>>

ToOthers(s) == <<"others", s[2]>>

Ev(ev, to, id, val, inv, msg) ==
  [ev |-> ev, to |-> to, id |-> id, val |-> val, inv |-> inv, msg |-> msg]

----------------------------------------------------------------------------
(* Inputs: the payloads clients send and the draws of Math.random *)

\* getValidSpawnPoint, lines 266-276: the one spawn area, and the draws that are
\* its extremes (Math.random() is 0 or just under 1)
SpawnArea == [x |-> 25 * TILE_SIZE, y |-> 25 * TILE_SIZE, width |-> 30 * TILE_SIZE, height |-> 30 * TILE_SIZE]

SpawnCorners ==
  { <<SpawnArea.x + rx, SpawnArea.y + ry>> :
      rx \in {0, SpawnArea.width - 1}, ry \in {0, SpawnArea.height - 1} }

\* getValidSpawnPoint: a point of the spawn area, which is the safe zone
SpawnPoints == { <<3500, 2000>> }

\* initializeEnemies: the positions drawn for the enemies
EnemySpawnPoints == { <<3510, 2000>> }

Report(x, y, d, f, h) == [x |-> x, y |-> y, direction |-> d, frameIndex |-> f, health |-> h]

\* playerMovement payloads: inside and outside the safe zone, with honest and
\* with made-up health values
MovementReports ==
  { Report(3600, 2000, DIR_RIGHT, 1, 100),
    Report(3600, 2000, DIR_LEFT, 2, 10),
    Report(3500, 2000, DIR_UP, 3, -1) }

\* attack payloads: data.weapon is absent (<<>>) or carries a damage value
Weapons == { <<>>, <<0>>, <<-5>>, <<50>> }

\* inventory indices a client may name in a trade request
TradeIndices == 0..NumItems

\* the property name "length" sent as an index: the payload is the client's, and
\* inventory["length"] is a property of every array.  It is written as a number
\* that no slot index of TradeIndices takes.
LengthKey == -1

\* the keys a client may name in a trade request
TradeKeys == TradeIndices \cup { LengthKey }

\* elapsed time between two ticks, in ms
DeltaTimes == { 500 }

Draw(a, t, d, tie) == [action |-> a, timer |-> t, direction |-> d, tie |-> tie]

\* the draws of Math.random one enemy may consume in a tick: the next action,
\* its duration in ms (1 to 3 seconds) and its cardinal direction.  `tie`
\* stands for the floating-point rounding of cos and sin on an exact
\* diagonal, which the integer coordinates cannot decide.
Draws ==
  { Draw("idle", 1000, 0, TRUE),
    Draw("move", 2500, 0, FALSE),
    Draw("move", 1000, 1, TRUE),
    Draw("move", 2500, 2, FALSE),
    Draw("move", 1000, 3, TRUE) }

----------------------------------------------------------------------------
(* Players *)

NoTrade == <<>>

\* an object with no keys
EmptyMap == [j \in {} |-> 0]

NoFrame == -1

\* a variant of NewPlayer that takes the spawn point one area width too far east
NewPlayer_Displaced(id, p) ==
  [id |-> id, x |-> p[1] + 30 * TILE_SIZE, y |-> p[2], direction |-> DIR_DOWN, frameIndex |-> NoFrame,
   health |-> PlayerMaxHealth, maxHealth |-> PlayerMaxHealth, inventory |-> <<>>,
   copper |-> 0, pendingTrade |-> NoTrade]

\* lines 417-431
NewPlayer(id, p) ==
  [id |-> id, x |-> p[1], y |-> p[2], direction |-> DIR_DOWN, frameIndex |-> NoFrame,
   health |-> PlayerMaxHealth, maxHealth |-> PlayerMaxHealth, inventory |-> <<>>,
   copper |-> 0, pendingTrade |-> NoTrade]

\* delete obj[k]
Delete(f, k) == [j \in DOMAIN f \ {k} |-> f[j]]

\* obj[k] = v for a new or an existing key
Put(f, k, v) == [j \in DOMAIN f \cup {k} |-> IF j = k THEN v ELSE f[j]]

\* the number n as the value of a property
Num(n) == <<"number", n>>

\* inventory[i] is truthy: a slot that holds an item (arrays are 0-based; an
\* empty slot and any other index give undefined), or the length of an
\* inventory that is not empty
HasSlot(inv, i) ==
  IF i = LengthKey THEN Len(inv) > 0
  ELSE i >= 0 /\ i < Len(inv) /\ inv[i + 1] # NoId

\* inventory[i]: the item in slot i, the number of slots for the key "length",
\* undefined (NoId) for an empty slot and for any other index
Slot(inv, i) ==
  IF i = LengthKey THEN Num(Len(inv))
  ELSE IF HasSlot(inv, i) THEN inv[i + 1] ELSE NoId

\* inventory[i] = v for a slot; inventory.length = n drops the slots from n on
\* or adds empty slots up to n
SetSlot(inv, i, v) ==
  IF i = LengthKey
  THEN [k \in 1..v[2] |-> IF k <= Len(inv) THEN inv[k] ELSE NoId]
  ELSE [inv EXCEPT ![i + 1] = v]

\* inventory.length = v throws a RangeError unless v is a number
RangeError(i, v) == i = LengthKey /\ v[1] # "number"

\* a variant of FindShield that gives the last shield of the inventory
FindShield_Last(inv) ==
  IF \E k \in 1..Len(inv) : ItemType(inv[k]) = "shield"
  THEN << inv[CHOOSE k \in 1..Len(inv) :
               /\ ItemType(inv[k]) = "shield"
               /\ \A j \in (k + 1)..Len(inv) : ItemType(inv[j]) # "shield"] >>
  ELSE <<>>

\* inventory.find(item => item.type === 'shield'): <<>> when there is none
FindShield(inv) ==
  IF \E k \in 1..Len(inv) : ItemType(inv[k]) = "shield"
  THEN << inv[CHOOSE k \in 1..Len(inv) :
               /\ ItemType(inv[k]) = "shield"
               /\ \A j \in 1..(k - 1) : ItemType(inv[j]) # "shield"] >>
  ELSE <<>>

\* the damage a Player target takes: shield.defense is subtracted, floored at 0
ShieldedDamage(damage, inv) ==
  IF FindShield(inv) # <<>> THEN Max(0, damage - ItemDefense(FindShield(inv)[1])) ELSE damage

\* data.weapon && data.weapon.damage ? weapon.damage : 10
BaseDamage(weapon) == IF weapon # <<>> /\ weapon[1] # 0 THEN weapon[1] ELSE DefaultDamage

----------------------------------------------------------------------------
(* Enemies *)

NoCooldown == -1

NewEnemy(id, p) ==
  [id |-> id, x |-> p[1], y |-> p[2], health |-> EnemyMaxHealth, maxHealth |-> EnemyMaxHealth,
   targetPlayerId |-> NoId, direction |-> DIR_DOWN,
   aiState |-> [action |-> "idle", timer |-> 0, direction |-> 0],
   attackCooldown |-> NoCooldown]

----------------------------------------------------------------------------
(* Start-up: src/server.js:109-123 *)

Init ==
  /\ players = EmptyMap
  /\ items = ItemIds
  /\ \E p \in EnemySpawnPoints : enemies = [id \in EnemyIds |-> NewEnemy(id, p)]
  /\ sockets = {}
  /\ closing = {}
  /\ nextSocket = 1
  /\ lastUpdateTime = 0
  /\ crashed = FALSE
  /\ events = 0

----------------------------------------------------------------------------
(* Handlers.  Each handler is a function of the state it starts from: it    *)
(* gives the stores as the handler leaves them and, in `emitted`, the       *)
(* events it sent, in order.                                                *)

\* the stores as they are, and nothing sent
Before ==
  [players |-> players, items |-> items, enemies |-> enemies, sockets |-> sockets,
   closing |-> closing, crashed |-> crashed, emitted |-> <<>>]

\* an uncaught exception in a handler: the process ends before anything is written
Thrown == [Before EXCEPT !.crashed = TRUE]

(* io.on('connection') *)
onConnection(id, p) ==
  [Before EXCEPT !.players = Put(players, id, NewPlayer(id, p)),
                 !.sockets = sockets \cup {id},
                 !.emitted = << Ev("currentPlayers", id, NoId, 0, <<>>, ""),
                                Ev("currentItems", id, NoId, 0, <<>>, ""),
                                Ev("updateEnemies", id, NoId, 0, <<>>, ""),
                                Ev("newPlayer", ToOthers(id), id, 0, <<>>, "") >>]

(* socket.on('disconnect'): the client left, or the close the server asked  *)
(* for with disconnect(true) has completed                                  *)
onDisconnect(s) ==
  [Before EXCEPT !.players = Delete(players, s),
                 !.sockets = sockets \ {s},
                 !.closing = closing \ {s},
                 !.emitted = << Ev("playerDisconnected", ToAll, s, 0, <<>>, "") >>]

\* a variant of onPlayerMovement that keeps the reported health within 0..maxHealth
onPlayerMovement_Clamped(s, data) ==
  IF s \in DOMAIN players
  THEN LET health == IF data.health < 0 THEN 0
                     ELSE IF data.health > players[s].maxHealth THEN players[s].maxHealth
                     ELSE data.health
       IN [Before EXCEPT !.players = [players EXCEPT ![s].x = data.x, ![s].y = data.y,
                                                     ![s].direction = data.direction,
                                                     ![s].frameIndex = data.frameIndex,
                                                     ![s].health = health],
                         !.emitted = << Ev("playerMoved", ToOthers(s), s, health, <<>>, "") >>]
  ELSE Before

(* socket.on('playerMovement') *)
onPlayerMovement(s, data) ==
  IF s \in DOMAIN players
  THEN [Before EXCEPT !.players = [players EXCEPT ![s].x = data.x, ![s].y = data.y,
                                                  ![s].direction = data.direction,
                                                  ![s].frameIndex = data.frameIndex,
                                                  ![s].health = data.health],
                      !.emitted = << Ev("playerMoved", ToOthers(s), s, data.health, <<>>, "") >>]
  ELSE Before

\* a variant of onPickupItem that leaves the picked item in the world (no delete)
onPickupItem_KeepInWorld(s, itemId) ==
  IF itemId \in items
  THEN IF s \in DOMAIN players
       THEN [Before EXCEPT !.players = [players EXCEPT ![s].inventory = Append(@, itemId)],
                           !.emitted = << Ev("itemPickedUp", ToAll, s, 0, <<itemId>>, "") >>]
       ELSE Thrown
  ELSE Before

(* socket.on('pickupItem') *)
onPickupItem(s, itemId) ==
  IF itemId \in items
  THEN IF s \in DOMAIN players
       THEN [Before EXCEPT !.players = [players EXCEPT ![s].inventory = Append(@, itemId)],
                           !.items = items \ {itemId},
                           !.emitted = << Ev("itemPickedUp", ToAll, s, 0, <<itemId>>, "") >>]
       ELSE Thrown  \* players[socket.id] is undefined: TypeError at line 489
  ELSE Before

(* socket.on('attack') *)

\* lines 519-539: the hit on a Player target
AttackPlayer(s, targetId, baseDamage) ==
  LET damage == ShieldedDamage(baseDamage, players[targetId].inventory)
      health == players[targetId].health - damage
  IN IF health <= 0
     THEN [Before EXCEPT !.players = Delete(players, targetId),
                         !.closing = IF targetId \in sockets THEN closing \cup {targetId} ELSE closing,
                         !.emitted = << Ev("playerKilled", ToAll, targetId, 0, <<>>, ""),
                                        Ev("playerDamaged", targetId, targetId, 0, <<>>, ""),
                                        Ev("playerDisconnected", ToAll, targetId, 0, <<>>, "") >>]
     ELSE [Before EXCEPT !.players = [players EXCEPT ![targetId].health = health],
                         !.emitted = << Ev("playerDamaged", ToAll, targetId, health, <<>>, "") >>]

\* a variant of AttackEnemy that rewards a kill and leaves the Enemy in the
\* store with health 0
AttackEnemy_KeepCorpse(s, targetId, damage) ==
  LET health == enemies[targetId].health - damage IN
  IF health <= 0
  THEN [Before EXCEPT !.players = [players EXCEPT ![s].copper = @ + KillReward],
                      !.enemies = [enemies EXCEPT ![targetId].health = 0],
                      !.emitted = << Ev("updateCopper", s, s, players[s].copper + KillReward, <<>>, ""),
                                     Ev("enemyKilled", ToAll, targetId, 0, <<>>, ""),
                                     Ev("rewardCode", s, NoId, 0, <<>>, "") >>]
  ELSE [Before EXCEPT !.enemies = [enemies EXCEPT ![targetId].health = health]]

\* a variant of AttackEnemy that pays the reward for every hit, lethal or not
AttackEnemy_PaidPerHit(s, targetId, damage) ==
  LET health == enemies[targetId].health - damage IN
  IF health <= 0
  THEN [Before EXCEPT !.players = [players EXCEPT ![s].copper = @ + KillReward],
                      !.enemies = Delete(enemies, targetId),
                      !.emitted = << Ev("updateCopper", s, s, players[s].copper + KillReward, <<>>, ""),
                                     Ev("enemyKilled", ToAll, targetId, 0, <<>>, ""),
                                     Ev("rewardCode", s, NoId, 0, <<>>, "") >>]
  ELSE [Before EXCEPT !.players = [players EXCEPT ![s].copper = @ + KillReward],
                      !.enemies = [enemies EXCEPT ![targetId].health = health]]

\* a variant of AttackEnemy that decides the kill by health < 0 instead of <= 0
AttackEnemy_StrictKill(s, targetId, damage) ==
  LET health == enemies[targetId].health - damage IN
  IF health < 0
  THEN [Before EXCEPT !.players = [players EXCEPT ![s].copper = @ + KillReward],
                      !.enemies = Delete(enemies, targetId),
                      !.emitted = << Ev("updateCopper", s, s, players[s].copper + KillReward, <<>>, ""),
                                     Ev("enemyKilled", ToAll, targetId, 0, <<>>, ""),
                                     Ev("rewardCode", s, NoId, 0, <<>>, "") >>]
  ELSE [Before EXCEPT !.enemies = [enemies EXCEPT ![targetId].health = health]]

\* lines 542-558: the hit on an Enemy target
AttackEnemy(s, targetId, damage) ==
  LET health == enemies[targetId].health - damage IN
  IF health <= 0
  THEN [Before EXCEPT !.players = [players EXCEPT ![s].copper = @ + KillReward],
                      !.enemies = Delete(enemies, targetId),
                      !.emitted = << Ev("updateCopper", s, s, players[s].copper + KillReward, <<>>, ""),
                                     Ev("enemyKilled", ToAll, targetId, 0, <<>>, ""),
                                     Ev("rewardCode", s, NoId, 0, <<>>, "") >>]
  ELSE [Before EXCEPT !.enemies = [enemies EXCEPT ![targetId].health = health]]

\* a variant of SafeZoneError without the test of the target (lines 514-518)
SafeZoneError_AttackerOnly(s, targetId) ==
  IF isInSafeZone(players[s].x, players[s].y)
  THEN "You cannot attack from a safe zone."
  ELSE ""

\* lines 505-518: the message of the safe-zone check that stops the attack of
\* Player s on targetId, "" when none does
SafeZoneError(s, targetId) ==
  IF isInSafeZone(players[s].x, players[s].y)
  THEN "You cannot attack from a safe zone."
  ELSE IF targetId \in DOMAIN players /\ isInSafeZone(players[targetId].x, players[targetId].y)
       THEN "You cannot attack a player in a safe zone."
       ELSE ""

onAttack(s, data) ==
  IF s \notin DOMAIN players
  THEN Thrown  \* attacker is undefined: TypeError at line 506
  ELSE IF SafeZoneError(s, data.targetId) # ""
  THEN [Before EXCEPT !.emitted =
          << Ev("attackError", s, NoId, 0, <<>>, SafeZoneError(s, data.targetId)) >>]
  ELSE IF data.targetId \in DOMAIN players
  THEN AttackPlayer(s, data.targetId, BaseDamage(data.weapon))
  ELSE IF data.targetId \in DOMAIN enemies
  THEN AttackEnemy(s, data.targetId, BaseDamage(data.weapon))
  ELSE Before

(* socket.on('tradeRequest') *)
\* a variant of ValidTradeRequest without the look at the recipient's slot
ValidTradeRequest_OfferOnly(s, data) ==
  /\ s \in DOMAIN players
  /\ data.recipientId \in DOMAIN players
  /\ HasSlot(players[s].inventory, data.offeredItemIndex)

\* line 570: sender && recipient && sender.inventory[offered] && recipient.inventory[requested]
ValidTradeRequest(s, data) ==
  /\ s \in DOMAIN players
  /\ data.recipientId \in DOMAIN players
  /\ HasSlot(players[s].inventory, data.offeredItemIndex)
  /\ HasSlot(players[data.recipientId].inventory, data.requestedItemIndex)

\* a variant of onTradeRequest that keeps a PendingTrade the sender already has
onTradeRequest_KeepFirst(s, data) ==
  IF ValidTradeRequest(s, data)
  THEN [Before EXCEPT
          !.emitted = << Ev("tradeRequest", data.recipientId, s, 0,
                            << Slot(players[s].inventory, data.offeredItemIndex),
                               Slot(players[data.recipientId].inventory, data.requestedItemIndex) >>,
                            "") >>,
          !.players = [players EXCEPT ![s].pendingTrade =
                         IF @ # NoTrade THEN @
                         ELSE << [recipientId |-> data.recipientId,
                                  offeredItemIndex |-> data.offeredItemIndex,
                                  requestedItemIndex |-> data.requestedItemIndex] >>]]
  ELSE [Before EXCEPT !.emitted = << Ev("tradeError", s, NoId, 0, <<>>, "Invalid trade request.") >>]

onTradeRequest(s, data) ==
  IF ValidTradeRequest(s, data)
  THEN [Before EXCEPT
          !.emitted = << Ev("tradeRequest", data.recipientId, s, 0,
                            << Slot(players[s].inventory, data.offeredItemIndex),
                               Slot(players[data.recipientId].inventory, data.requestedItemIndex) >>,
                            "") >>,
          !.players = [players EXCEPT ![s].pendingTrade =
                         << [recipientId |-> data.recipientId,
                             offeredItemIndex |-> data.offeredItemIndex,
                             requestedItemIndex |-> data.requestedItemIndex] >>]]
  ELSE [Before EXCEPT !.emitted = << Ev("tradeError", s, NoId, 0, <<>>, "Invalid trade request.") >>]

\* a variant of NamesRecipient without the comparison of the recipient
NamesRecipient_AnyCaller(senderId, recipientId) ==
  /\ senderId \in DOMAIN players
  /\ players[senderId].pendingTrade # NoTrade

\* sender && sender.pendingTrade && sender.pendingTrade.recipientId === recipientId
NamesRecipient(senderId, recipientId) ==
  /\ senderId \in DOMAIN players
  /\ players[senderId].pendingTrade # NoTrade
  /\ players[senderId].pendingTrade[1].recipientId = recipientId

\* line 604: sender.inventory[offeredItemIndex] = requestedItem
FirstWrite(senderId, recipientId, oi, ri) ==
  [players EXCEPT ![senderId].inventory = SetSlot(@, oi, Slot(players[recipientId].inventory, ri))]

\* a variant of SwapItems that breaks off after the first write (line 604 only)
SwapItems_SenderSlotOnly(senderId, recipientId, oi, ri) ==
  [players EXCEPT ![senderId].inventory[oi + 1] = Slot(players[recipientId].inventory, ri)]

\* lines 604-605: the two slot writes, in the order of the code
SwapItems(senderId, recipientId, oi, ri) ==
  LET offeredItem == Slot(players[senderId].inventory, oi)
      p1 == FirstWrite(senderId, recipientId, oi, ri)
  IN [p1 EXCEPT ![recipientId].inventory = SetSlot(@, ri, offeredItem)]

TradeFailed(to) == Ev("tradeError", to, NoId, 0, <<>>, "Trade failed. Items no longer available.")

(* socket.on('acceptTrade') *)
onAcceptTrade(s, senderId) ==
  IF s \in DOMAIN players /\ NamesRecipient(senderId, s)
  THEN LET t == players[senderId].pendingTrade[1] IN
       IF /\ HasSlot(players[senderId].inventory, t.offeredItemIndex)
          /\ HasSlot(players[s].inventory, t.requestedItemIndex)
       THEN LET swapped == SwapItems(senderId, s, t.offeredItemIndex, t.requestedItemIndex) IN
            IF RangeError(t.offeredItemIndex, Slot(players[s].inventory, t.requestedItemIndex))
            THEN Thrown  \* line 604 assigns an item to sender.inventory.length
            ELSE IF RangeError(t.requestedItemIndex, Slot(players[senderId].inventory, t.offeredItemIndex))
            THEN \* line 605 assigns an item to recipient.inventory.length, after the write of line 604
                 [Thrown EXCEPT !.players = FirstWrite(senderId, s, t.offeredItemIndex, t.requestedItemIndex)]
            ELSE
            [Before EXCEPT
               !.players = [swapped EXCEPT ![senderId].pendingTrade = NoTrade],
               !.emitted = << Ev("tradeSuccess", senderId, NoId, 0, swapped[senderId].inventory, ""),
                              Ev("tradeSuccess", s, NoId, 0, swapped[s].inventory, "") >>]
       ELSE [Before EXCEPT !.emitted = << TradeFailed(senderId), TradeFailed(s) >>]
  ELSE [Before EXCEPT !.emitted = << Ev("tradeError", s, NoId, 0, <<>>, "No valid trade to accept.") >>]

\* a variant of onDeclineTrade that notifies the sender and keeps the PendingTrade
onDeclineTrade_NotifyOnly(s, senderId) ==
  IF NamesRecipient(senderId, s)
  THEN [Before EXCEPT !.emitted = << Ev("tradeDeclined", senderId, s, 0, <<>>, "") >>]
  ELSE [Before EXCEPT !.emitted = << Ev("tradeError", s, NoId, 0, <<>>, "No valid trade to decline.") >>]

(* socket.on('declineTrade') *)
onDeclineTrade(s, senderId) ==
  IF NamesRecipient(senderId, s)
  THEN [Before EXCEPT !.players = [players EXCEPT ![senderId].pendingTrade = NoTrade],
                      !.emitted = << Ev("tradeDeclined", senderId, s, 0, <<>>, "") >>]
  ELSE [Before EXCEPT !.emitted = << Ev("tradeError", s, NoId, 0, <<>>, "No valid trade to decline.") >>]

----------------------------------------------------------------------------
(* The game loop: updateEnemies(deltaTime), then broadcastEnemies()        *)

RECURSIVE SqrtBetween(_, _, _)
\* the largest r in lo..hi with r * r <= n
SqrtBetween(n, lo, hi) ==
  IF lo >= hi THEN lo
  ELSE LET mid == (lo + hi + 1) \div 2
       IN IF mid * mid <= n THEN SqrtBetween(n, mid, hi) ELSE SqrtBetween(n, lo, mid - 1)

\* Math.hypot(a, b), rounded down to a whole unit
Hypot(a, b) == SqrtBetween(a * a + b * b, 0, Abs(a) + Abs(b))

\* Math.hypot(a, b) < r for whole a, b, r
HypotLess(a, b, r) == a * a + b * b < r * r

\* p / q rounded to the nearest whole unit, for q > 0 and any sign of p
RoundQuot(p, q) == IF p >= 0 THEN (2 * p + q) \div (2 * q) ELSE -((2 * (-p) + q) \div (2 * q))

\* lines 296-302: the first Player, in insertion order, at the least distance
NearestPlayer(ps, e) ==
  IF DOMAIN ps = {} THEN NoId
  ELSE CHOOSE id \in DOMAIN ps :
         \A o \in DOMAIN ps :
           LET di == (ps[id].x - e.x) * (ps[id].x - e.x) + (ps[id].y - e.y) * (ps[id].y - e.y)
               do == (ps[o].x - e.x) * (ps[o].x - e.x) + (ps[o].y - e.y) * (ps[o].y - e.y)
           IN di < do \/ (di = do /\ id[2] <= o[2])

\* a variant of NextAi in which a running timer keeps the Enemy from noticing Players
NextAi_TimerFirst(ps, e, dt, draw) ==
  LET timer == e.aiState.timer - dt
      nearest == NearestPlayer(ps, e)
  IN IF timer > 0
     THEN [e EXCEPT !.aiState.timer = timer]
     ELSE IF nearest # NoId /\ HypotLess(ps[nearest].x - e.x, ps[nearest].y - e.y, AggroRadius)
          THEN [e EXCEPT !.aiState.timer = timer, !.aiState.action = "chase", !.targetPlayerId = nearest]
          ELSE [e EXCEPT !.aiState.action = draw.action, !.aiState.timer = draw.timer,
                         !.aiState.direction = draw.direction, !.targetPlayerId = NoId]

\* a variant of NextAi whose random branch keeps the target of the last chase
NextAi_KeepTarget(ps, e, dt, draw) ==
  LET timer == e.aiState.timer - dt
      nearest == NearestPlayer(ps, e)
  IN IF nearest # NoId /\ HypotLess(ps[nearest].x - e.x, ps[nearest].y - e.y, AggroRadius)
     THEN [e EXCEPT !.aiState.timer = timer, !.aiState.action = "chase", !.targetPlayerId = nearest]
     ELSE IF timer <= 0
          THEN [e EXCEPT !.aiState.action = draw.action, !.aiState.timer = draw.timer,
                         !.aiState.direction = draw.direction]
          ELSE [e EXCEPT !.aiState.timer = timer]

\* lines 304-315: the AI state after the aggro and the timer rules
NextAi(ps, e, dt, draw) ==
  LET timer == e.aiState.timer - dt
      nearest == NearestPlayer(ps, e)
  IN IF nearest # NoId /\ HypotLess(ps[nearest].x - e.x, ps[nearest].y - e.y, AggroRadius)
     THEN [e EXCEPT !.aiState.timer = timer, !.aiState.action = "chase", !.targetPlayerId = nearest]
     ELSE IF timer <= 0
          THEN [e EXCEPT !.aiState.action = draw.action, !.aiState.timer = draw.timer,
                         !.aiState.direction = draw.direction, !.targetPlayerId = NoId]
          ELSE [e EXCEPT !.aiState.timer = timer]

\* lines 322-324: (cos, sin) of atan2(ddy, ddx), times speed * deltaTime
ChaseDelta(ddx, ddy, step) ==
  IF ddy = 0 THEN << IF ddx >= 0 THEN step ELSE -step, 0 >>
  ELSE IF ddx = 0 THEN << 0, IF ddy > 0 THEN step ELSE -step >>
  ELSE << RoundQuot(step * ddx, Hypot(ddx, ddy)), RoundQuot(step * ddy, Hypot(ddx, ddy)) >>

\* lines 327-331: Math.abs(dx) > Math.abs(dy) decides the axis
ChaseFacing(ddx, ddy, step, tie) ==
  LET horizontal == IF step = 0 THEN FALSE
                    ELSE IF ddx = 0 /\ ddy = 0 THEN TRUE
                    ELSE IF Abs(ddx) = Abs(ddy) THEN tie
                    ELSE Abs(ddx) > Abs(ddy)
  IN IF horizontal
     THEN (IF ddx >= 0 THEN DIR_RIGHT ELSE DIR_LEFT)
     ELSE (IF step > 0 /\ ddy > 0 THEN DIR_DOWN ELSE DIR_UP)

\* lines 317-341: the displacement of this tick and the facing direction
Movement(ps, e, dt, draw) ==
  LET step == (EnemySpeed * dt) \div 1000 IN
  IF e.aiState.action = "chase" /\ e.targetPlayerId # NoId
  THEN IF e.targetPlayerId \in DOMAIN ps
       THEN LET ddx == ps[e.targetPlayerId].x - e.x
                ddy == ps[e.targetPlayerId].y - e.y
            IN [d |-> ChaseDelta(ddx, ddy, step), direction |-> ChaseFacing(ddx, ddy, step, draw.tie)]
       ELSE [d |-> <<0, 0>>, direction |-> e.direction]
  ELSE IF e.aiState.action = "move"
       THEN CASE e.aiState.direction = 0 -> [d |-> <<0, step>>, direction |-> DIR_DOWN]
              [] e.aiState.direction = 1 -> [d |-> <<-step, 0>>, direction |-> DIR_LEFT]
              [] e.aiState.direction = 2 -> [d |-> <<step, 0>>, direction |-> DIR_RIGHT]
              [] e.aiState.direction = 3 -> [d |-> <<0, -step>>, direction |-> DIR_UP]
              [] OTHER -> [d |-> <<0, 0>>, direction |-> e.direction]
       ELSE [d |-> <<0, 0>>, direction |-> e.direction]

\* lines 347-353: a corner of the bounding box lies on a wall tile
CollidesWithImpassable(x, y) ==
  LET h == EnemySize \div 2 IN
  \E c \in { <<x - h, y - h>>, <<x + h, y - h>>, <<x - h, y + h>>, <<x + h, y + h>> } :
    getTileAt(c[1], c[2]) = TILE_WALL

\* a variant of Moved that slides along one axis when the full move is blocked
Moved_AxisSlide(ps, e, dt, draw) ==
  LET m == Movement(ps, e, dt, draw)
      newX == e.x + m.d[1]
      newY == e.y + m.d[2]
  IN IF ~CollidesWithImpassable(newX, newY)
     THEN [e EXCEPT !.direction = m.direction, !.x = newX, !.y = newY]
     ELSE IF ~CollidesWithImpassable(newX, e.y)
     THEN [e EXCEPT !.direction = m.direction, !.x = newX]
     ELSE IF ~CollidesWithImpassable(e.x, newY)
     THEN [e EXCEPT !.direction = m.direction, !.y = newY]
     ELSE [e EXCEPT !.direction = m.direction]

\* lines 343-358
Moved(ps, e, dt, draw) ==
  LET m == Movement(ps, e, dt, draw)
      newX == e.x + m.d[1]
      newY == e.y + m.d[2]
  IN IF CollidesWithImpassable(newX, newY)
     THEN [e EXCEPT !.direction = m.direction]
     ELSE [e EXCEPT !.direction = m.direction, !.x = newX, !.y = newY]

\* a variant of Strikes without the cooldown test of line 367
Strikes_NoCooldown(ps, e, now) ==
  /\ e.targetPlayerId # NoId
  /\ e.targetPlayerId \in DOMAIN ps
  /\ HypotLess(e.x - ps[e.targetPlayerId].x, e.y - ps[e.targetPlayerId].y, MeleeRange)

\* a variant of Strikes that spares a target standing in a safe zone
Strikes_SafeZoneSpared(ps, e, now) ==
  /\ e.targetPlayerId # NoId
  /\ e.targetPlayerId \in DOMAIN ps
  /\ ~isInSafeZone(ps[e.targetPlayerId].x, ps[e.targetPlayerId].y)
  /\ HypotLess(e.x - ps[e.targetPlayerId].x, e.y - ps[e.targetPlayerId].y, MeleeRange)
  /\ (e.attackCooldown = NoCooldown \/ now - e.attackCooldown > AttackCooldownMs)

\* lines 361-367: the enemy strikes its target in this tick
Strikes(ps, e, now) ==
  /\ e.targetPlayerId # NoId
  /\ e.targetPlayerId \in DOMAIN ps
  /\ HypotLess(e.x - ps[e.targetPlayerId].x, e.y - ps[e.targetPlayerId].y, MeleeRange)
  /\ (e.attackCooldown = NoCooldown \/ now - e.attackCooldown > AttackCooldownMs)

\* a variant of Strike that keeps a killed Player in the store with health 0
Strike_KeepDead(st, e, now) ==
  LET t == e.targetPlayerId
      health == st.players[t].health - ShieldedDamage(EnemyDamage, st.players[t].inventory)
      e2 == [e EXCEPT !.attackCooldown = now]
      hit == Ev("enemyAttack", ToAll, e.id, 0, <<>>, "")
  IN IF health <= 0
     THEN [st EXCEPT !.players[t].health = 0,
                     !.enemies[e.id] = e2,
                     !.emitted = st.emitted \o << hit, Ev("playerKilled", ToAll, t, 0, <<>>, "") >>]
     ELSE [st EXCEPT !.players[t].health = health,
                     !.enemies[e.id] = e2,
                     !.emitted = st.emitted \o << hit, Ev("playerDamaged", t, t, health, <<>>, "") >>]

\* lines 368-396: the strike, on the stores st as the enemies before this one left them
Strike(st, e, now) ==
  LET t == e.targetPlayerId
      health == st.players[t].health - ShieldedDamage(EnemyDamage, st.players[t].inventory)
      e2 == [e EXCEPT !.attackCooldown = now]
      hit == Ev("enemyAttack", ToAll, e.id, 0, <<>>, "")
  IN IF health <= 0
     THEN [st EXCEPT !.players = Delete(st.players, t),
                     !.enemies[e.id] = e2,
                     !.closing = IF t \in st.sockets THEN st.closing \cup {t} ELSE st.closing,
                     !.emitted = st.emitted \o << hit, Ev("playerKilled", ToAll, t, 0, <<>>, ""),
                                                  Ev("playerDisconnected", ToAll, t, 0, <<>>, "") >>]
     ELSE [st EXCEPT !.players[t].health = health,
                     !.enemies[e.id] = e2,
                     !.emitted = st.emitted \o << hit, Ev("playerDamaged", t, t, health, <<>>, "") >>]

\* the body of the forEach of updateEnemies for one enemy
UpdateEnemy(st, id, dt, draw, now) ==
  LET e0 == st.enemies[id] IN
  IF e0.health <= 0 THEN st
  ELSE LET e1 == Moved(st.players, NextAi(st.players, e0, dt, draw), dt, draw) IN
       IF Strikes(st.players, e1, now)
       THEN Strike(st, e1, now)
       ELSE [st EXCEPT !.enemies[id] = e1]

RECURSIVE updateEnemies(_, _, _, _, _)
\* Object.values(enemies).forEach, from enemy n on, in insertion order
updateEnemies(st, n, dt, draws, now) ==
  IF n >= NumEnemies THEN st
  ELSE IF EnemyId(n) \in DOMAIN st.enemies
       THEN updateEnemies(UpdateEnemy(st, EnemyId(n), dt, draws[EnemyId(n)], now), n + 1, dt, draws, now)
       ELSE updateEnemies(st, n + 1, dt, draws, now)

RECURSIVE EnemiesDone(_, _, _)
\* the stores in the middle of the forEach of a tick that starts in this state:
\* after the enemies 0 .. k-1 have been updated, as enemy k finds them
EnemiesDone(k, dt, draws) ==
  IF k = 0 THEN Before
  ELSE LET st == EnemiesDone(k - 1, dt, draws) IN
       IF EnemyId(k - 1) \in DOMAIN st.enemies
       THEN UpdateEnemy(st, EnemyId(k - 1), dt, draws[EnemyId(k - 1)], lastUpdateTime + dt)
       ELSE st

\* the enemies object es as io.emit serialises it: its values, in key order
EnemyList(es) ==
  LET keys == SelectSeq([k \in 1..NumEnemies |-> EnemyId(k - 1)], LAMBDA id : id \in DOMAIN es)
  IN [i \in 1..Len(keys) |-> es[keys[i]]]

\* lines 405-407: io.emit('updateEnemies', enemies)
broadcastEnemies(st) ==
  [st EXCEPT !.emitted = @ \o << Ev("updateEnemies", ToAll, NoId,
                                    Cardinality(DOMAIN st.enemies), EnemyList(st.enemies), "") >>]

\* a variant of gameLoop that broadcasts the enemies before it updates them
gameLoop_BroadcastFirst(dt, draws) ==
  updateEnemies(broadcastEnemies(Before), 0, dt, draws, lastUpdateTime + dt)

(* the setInterval callback, lines 645-653: the stores after updateEnemies, *)
(* and what the tick sent, the broadcast of broadcastEnemies last           *)
gameLoop(dt, draws) ==
  broadcastEnemies(updateEnemies(Before, 0, dt, draws, lastUpdateTime + dt))

----------------------------------------------------------------------------
(* Actions: one per event, taking the state to what the handler leaves *)

Commit(o) ==
  /\ players' = o.players
  /\ items' = o.items
  /\ enemies' = o.enemies
  /\ sockets' = o.sockets
  /\ closing' = o.closing
  /\ crashed' = o.crashed

\* an event that changes the stores is explored while the bound allows, and counted
Counted(o) ==
  IF [o EXCEPT !.emitted = <<>>] = Before
  THEN events' = events
  ELSE events < MaxEvents /\ events' = events + 1

Connect(p) ==
  /\ ~crashed
  /\ nextSocket <= MaxSockets
  /\ Commit(onConnection(SocketId(nextSocket), p))
  /\ nextSocket' = nextSocket + 1
  /\ UNCHANGED <<lastUpdateTime, events>>

Disconnect(s) ==
  /\ ~crashed
  /\ s \in sockets
  /\ Commit(onDisconnect(s))
  /\ UNCHANGED <<nextSocket, lastUpdateTime, events>>

PlayerMovement(s, data) ==
  /\ ~crashed
  /\ s \in sockets
  /\ Counted(onPlayerMovement(s, data))
  /\ Commit(onPlayerMovement(s, data))
  /\ UNCHANGED <<nextSocket, lastUpdateTime>>

PickupItem(s, itemId) ==
  /\ ~crashed
  /\ s \in sockets
  /\ Commit(onPickupItem(s, itemId))
  /\ UNCHANGED <<nextSocket, lastUpdateTime, events>>

Attack(s, data) ==
  /\ ~crashed
  /\ s \in sockets
  /\ Counted(onAttack(s, data))
  /\ Commit(onAttack(s, data))
  /\ UNCHANGED <<nextSocket, lastUpdateTime>>

TradeRequest(s, data) ==
  /\ ~crashed
  /\ s \in sockets
  /\ Commit(onTradeRequest(s, data))
  /\ UNCHANGED <<nextSocket, lastUpdateTime, events>>

AcceptTrade(s, senderId) ==
  /\ ~crashed
  /\ s \in sockets
  /\ Commit(onAcceptTrade(s, senderId))
  /\ UNCHANGED <<nextSocket, lastUpdateTime, events>>

DeclineTrade(s, senderId) ==
  /\ ~crashed
  /\ s \in sockets
  /\ Commit(onDeclineTrade(s, senderId))
  /\ UNCHANGED <<nextSocket, lastUpdateTime, events>>

Tick(dt, draws) ==
  /\ ~crashed
  /\ events < MaxEvents
  /\ events' = events + 1
  /\ Commit(gameLoop(dt, draws))
  /\ lastUpdateTime' = lastUpdateTime + dt
  /\ UNCHANGED nextSocket

Next ==
  \/ \E p \in SpawnPoints : Connect(p)
  \/ \E s \in SocketIds : Disconnect(s)
  \/ \E s \in SocketIds, data \in MovementReports : PlayerMovement(s, data)
  \/ \E s \in SocketIds, itemId \in ItemIds \cup {NoId} : PickupItem(s, itemId)
  \/ \E s \in SocketIds, targetId \in TargetIds, weapon \in Weapons :
       Attack(s, [targetId |-> targetId, weapon |-> weapon])
  \/ \E s \in SocketIds, r \in SocketIds \cup {NoId}, oi \in TradeIndices, ri \in TradeIndices :
       TradeRequest(s, [recipientId |-> r, offeredItemIndex |-> oi, requestedItemIndex |-> ri])
  \/ \E s \in SocketIds, senderId \in SocketIds \cup {NoId} : AcceptTrade(s, senderId)
  \/ \E s \in SocketIds, senderId \in SocketIds \cup {NoId} : DeclineTrade(s, senderId)
  \/ \E dt \in DeltaTimes, draws \in [EnemyIds -> Draws] : Tick(dt, draws)

\* initializeEnemies draws positions all over the world: one just outside the
\* east wall of the first room, with the spawn area on the other side of it
WallSpawnPoints == { <<3880, 2100>> }

InitAtWall ==
  /\ players = EmptyMap
  /\ items = ItemIds
  /\ \E p \in WallSpawnPoints : enemies = [id \in EnemyIds |-> NewEnemy(id, p)]
  /\ sockets = {}
  /\ closing = {}
  /\ nextSocket = 1
  /\ lastUpdateTime = 0
  /\ crashed = FALSE
  /\ events = 0

SpecAtWall == InitAtWall /\ [][Next]_vars

\* setInterval fires late by a varying amount: ticks of two lengths, so that
\* the time since an attack can be exactly 1000 ms and just over it
JitterTimes == DeltaTimes \cup { 501 }

NextJitter ==
  \/ Next
  \/ \E dt \in JitterTimes \ DeltaTimes, draws \in [EnemyIds -> Draws] : Tick(dt, draws)

SpecJitter == Init /\ [][NextJitter]_vars

\* generateItems draws the type of every item: a world whose items are all
\* shields, of different defenses, so that an inventory can hold two of them
SecondShield == ItemId(2 * NumItems - 2)

InitShields ==
  /\ players = EmptyMap
  /\ items = { id \in ItemIds \cup { SecondShield } : ItemType(id) = "shield" }
  /\ \E p \in EnemySpawnPoints : enemies = [id \in EnemyIds |-> NewEnemy(id, p)]
  /\ sockets = {}
  /\ closing = {}
  /\ nextSocket = 1
  /\ lastUpdateTime = 0
  /\ crashed = FALSE
  /\ events = 0

NextShields ==
  \/ Next
  \/ \E s \in SocketIds : PickupItem(s, SecondShield)

SpecShields == InitShields /\ [][NextShields]_vars

\* initializeEnemies draws x and y from 0 on: an enemy in the corner of the
\* world, whose box reaches over the edge of the grid, and a Player who reports
\* a position 100 units east of it
OriginSpawnPoints == { <<0, 0>> }

OriginReports == { Report(100, 0, DIR_RIGHT, 1, 100) }

InitAtOrigin ==
  /\ players = EmptyMap
  /\ items = ItemIds
  /\ \E p \in OriginSpawnPoints : enemies = [id \in EnemyIds |-> NewEnemy(id, p)]
  /\ sockets = {}
  /\ closing = {}
  /\ nextSocket = 1
  /\ lastUpdateTime = 0
  /\ crashed = FALSE
  /\ events = 0

NextAtOrigin ==
  \/ Next
  \/ \E s \in SocketIds, data \in OriginReports : PlayerMovement(s, data)

SpecAtOrigin == InitAtOrigin /\ [][NextAtOrigin]_vars

\* an enemy drawn on open floor east of the first room, more than 500 units
\* from the spawn area and from the reported positions near it, and a Player
\* who reports a position 100 units west of that enemy
AfieldSpawnPoints == { <<4500, 2000>> }

AfieldReports == { Report(4400, 2000, DIR_LEFT, 1, 100) }

InitAfield ==
  /\ players = EmptyMap
  /\ items = ItemIds
  /\ \E p \in AfieldSpawnPoints : enemies = [id \in EnemyIds |-> NewEnemy(id, p)]
  /\ sockets = {}
  /\ closing = {}
  /\ nextSocket = 1
  /\ lastUpdateTime = 0
  /\ crashed = FALSE
  /\ events = 0

NextAfield ==
  \/ Next
  \/ \E s \in SocketIds, data \in AfieldReports : PlayerMovement(s, data)

SpecAfield == InitAfield /\ [][NextAfield]_vars

\* an enemy drawn 100 units east and 100 units south of the spawn point, so
\* that its chase of a new Player runs along an exact diagonal
DiagonalSpawnPoints == { <<3600, 2100>> }

InitDiagonal ==
  /\ players = EmptyMap
  /\ items = ItemIds
  /\ \E p \in DiagonalSpawnPoints : enemies = [id \in EnemyIds |-> NewEnemy(id, p)]
  /\ sockets = {}
  /\ closing = {}
  /\ nextSocket = 1
  /\ lastUpdateTime = 0
  /\ crashed = FALSE
  /\ events = 0

SpecDiagonal == InitDiagonal /\ [][Next]_vars

\* the indices of a trade request are whatever the client sends: a world of
\* three items, so that two inventories can differ in length, and Players who
\* name the key "length" where an index is expected
ThirdItem == ItemId(NumItems)

InitKeys ==
  /\ players = EmptyMap
  /\ items = ItemIds \cup { ThirdItem }
  /\ \E p \in EnemySpawnPoints : enemies = [id \in EnemyIds |-> NewEnemy(id, p)]
  /\ sockets = {}
  /\ closing = {}
  /\ nextSocket = 1
  /\ lastUpdateTime = 0
  /\ crashed = FALSE
  /\ events = 0

NextKeys ==
  \/ \E p \in SpawnPoints : Connect(p)
  \/ \E s \in SocketIds : Disconnect(s)
  \/ \E s \in SocketIds, itemId \in ItemIds \cup { ThirdItem } : PickupItem(s, itemId)
  \/ \E s \in SocketIds, r \in SocketIds, oi \in TradeKeys, ri \in TradeKeys :
       TradeRequest(s, [recipientId |-> r, offeredItemIndex |-> oi, requestedItemIndex |-> ri])
  \/ \E s \in SocketIds, senderId \in SocketIds : AcceptTrade(s, senderId)

SpecKeys == InitKeys /\ [][NextKeys]_vars

Spec == Init /\ [][Next]_vars


-----------------------------------------------------------------------------
(* Properties.  A handler runs to completion on Node's single thread, so   *)
(* what a handler does to a reachable state is the outcome record of its   *)
(* operator, and a property of a handler quantifies over the payloads a    *)
(* client can send in that state.                                          *)

\* the outcome o leaves every store as it found it
StoresUnchanged(o) == [o EXCEPT !.emitted = <<>>] = Before

\* the outcome o emits the single event ev, to the connection s only
OnlyTo(o, ev, s) ==
  /\ Len(o.emitted) = 1
  /\ o.emitted[1].ev = ev
  /\ o.emitted[1].to = s

\* the number of inventory slots, over all live Players, that hold the item id
Holdings(id) ==
  Cardinality({ h \in (DOMAIN players) \X (1..NumItems) :
                  /\ h[2] <= Len(players[h[1]].inventory)
                  /\ players[h[1]].inventory[h[2]] = id })

\* C1: every generated item is in exactly one place in every reachable state:
\* either in the world item store or in exactly one slot of exactly one live
\* Player's inventory, never both and never neither.
C1_ItemConservation ==
  \A id \in ItemIds : Holdings(id) + (IF id \in items THEN 1 ELSE 0) = 1

-----------------------------------------------------------------------------
\* case (a) of C2: in the outcome o of acceptTrade(senderId) by s the two
\* slots of the pending trade hold each other's former items, nothing else in
\* any inventory has changed and the sender's PendingTrade is gone
TradeSwapped(o, s, senderId) ==
  /\ s \in DOMAIN players
  /\ senderId \in DOMAIN players
  /\ players[senderId].pendingTrade # NoTrade
  /\ DOMAIN o.players = DOMAIN players
  /\ LET oi == players[senderId].pendingTrade[1].offeredItemIndex + 1
         ri == players[senderId].pendingTrade[1].requestedItemIndex + 1
     IN /\ oi \in 1..Len(players[senderId].inventory)
        /\ ri \in 1..Len(players[s].inventory)
        /\ o.players[s].inventory[ri] = players[senderId].inventory[oi]
        /\ o.players[senderId].inventory[oi] = players[s].inventory[ri]
        /\ \A p \in DOMAIN players :
             /\ Len(o.players[p].inventory) = Len(players[p].inventory)
             /\ \A k \in 1..Len(players[p].inventory) :
                  \/ p = s /\ k = ri
                  \/ p = senderId /\ k = oi
                  \/ o.players[p].inventory[k] = players[p].inventory[k]
  /\ o.players[senderId].pendingTrade = NoTrade

\* case (b) of C2: the outcome o leaves every inventory exactly as it was
InventoriesUnchanged(o) ==
  /\ DOMAIN o.players = DOMAIN players
  /\ \A p \in DOMAIN players : o.players[p].inventory = players[p].inventory

\* C2: every acceptTrade either (a) puts the sender's offered item into the
\* recipient's requested slot and the recipient's requested item into the
\* sender's offered slot and clears the PendingTrade, or (b) leaves both
\* inventories exactly as they were; the handler is one step, so no state
\* with only one of the two slots rewritten is seen by another handler or tick.
C2_TradeAtomicity ==
  \A s \in sockets, senderId \in SocketIds \cup {NoId} :
    LET o == onAcceptTrade(s, senderId) IN
    TradeSwapped(o, s, senderId) \/ InventoriesUnchanged(o)

\* C2 happens: the named recipient accepts a trade with another Player and
\* the two inventories exchange an item
C2_Witness ==
  \E s \in DOMAIN players, senderId \in DOMAIN players :
    /\ s # senderId
    /\ TradeSwapped(onAcceptTrade(s, senderId), s, senderId)
    /\ onAcceptTrade(s, senderId).players[s].inventory # players[s].inventory
    /\ onAcceptTrade(s, senderId).players[senderId].inventory # players[senderId].inventory

-----------------------------------------------------------------------------
\* C3: an attack never raises the health of its target and never takes it
\* below 0 or above its maximum, for any weapon payload of the client.
C3_CombatMonotone ==
  \A s \in sockets \cap DOMAIN players, targetId \in TargetIds, weapon \in Weapons :
    LET o == onAttack(s, [targetId |-> targetId, weapon |-> weapon]) IN
    /\ (targetId \in DOMAIN players /\ targetId \in DOMAIN o.players) =>
         /\ o.players[targetId].health <= players[targetId].health
         /\ o.players[targetId].health >= 0
         /\ o.players[targetId].health <= o.players[targetId].maxHealth
    /\ (targetId \in DOMAIN enemies /\ targetId \in DOMAIN o.enemies) =>
         /\ o.enemies[targetId].health <= enemies[targetId].health
         /\ o.enemies[targetId].health >= 0
         /\ o.enemies[targetId].health <= o.enemies[targetId].maxHealth

\* C4: in every reachable state every Player's health is between 0 and its
\* maxHealth, whatever the clients send.
C4_HealthInRange ==
  \A p \in DOMAIN players : players[p].health >= 0 /\ players[p].health <= players[p].maxHealth


-----------------------------------------------------------------------------
\* C5: an attack by a Player who stands in a safe zone, or on a Player who
\* stands in one, sends attackError to the attacker only and changes no health
\* and no store; an Enemy target is hit wherever it and the safe zones are.
C5_SafeZoneGating ==
  \A s \in sockets \cap DOMAIN players, targetId \in TargetIds, weapon \in Weapons :
    LET o == onAttack(s, [targetId |-> targetId, weapon |-> weapon])
        attackerSafe == isInSafeZone(players[s].x, players[s].y)
        targetSafe == /\ targetId \in DOMAIN players
                      /\ isInSafeZone(players[targetId].x, players[targetId].y)
    IN /\ (attackerSafe \/ targetSafe) =>
            StoresUnchanged(o) /\ OnlyTo(o, "attackError", s)
       /\ (~attackerSafe /\ targetId \in DOMAIN enemies) =>
            /\ \A i \in 1..Len(o.emitted) : o.emitted[i].ev # "attackError"
            /\ \/ targetId \notin DOMAIN o.enemies
               \/ o.enemies[targetId].health = enemies[targetId].health - BaseDamage(weapon)

\* C5 happens: an attacker outside the safe zone is refused a target Player who
\* stands inside it, while an Enemy stands inside it unprotected
C5_Witness ==
  \E s \in sockets \cap DOMAIN players, t \in DOMAIN players, e \in DOMAIN enemies :
    /\ ~isInSafeZone(players[s].x, players[s].y)
    /\ isInSafeZone(players[t].x, players[t].y)
    /\ isInSafeZone(enemies[e].x, enemies[e].y)
    /\ OnlyTo(onAttack(s, [targetId |-> t, weapon |-> <<50>>]), "attackError", s)
    /\ onAttack(s, [targetId |-> e, weapon |-> <<>>]).enemies[e].health < enemies[e].health

\* C6: no Player whose health is 0 or less stays in the player store: in every
\* reachable state every Player of the store has positive health.
C6_NoDeadPlayerStored ==
  \A p \in DOMAIN players : players[p].health > 0

-----------------------------------------------------------------------------
\* the events of the outcome o that are named ev
Emitted(o, ev) == { i \in 1..Len(o.emitted) : o.emitted[i].ev = ev }

\* C7: an attack that brings an Enemy's health to 0 or below removes the Enemy,
\* adds exactly 10 to the attacker's copper and to nothing else, sends
\* updateCopper and rewardCode to the attacker only and enemyKilled to all; an
\* attack that leaves the Enemy's health above 0 changes that health and
\* nothing else.
C7_EnemyKill ==
  \A s \in sockets \cap DOMAIN players, e \in DOMAIN enemies, weapon \in Weapons :
    LET o == onAttack(s, [targetId |-> e, weapon |-> weapon])
        health == enemies[e].health - BaseDamage(weapon)
    IN ~isInSafeZone(players[s].x, players[s].y) =>
         IF health <= 0
         THEN /\ e \notin DOMAIN o.enemies
              /\ \A f \in DOMAIN enemies \ {e} : f \in DOMAIN o.enemies /\ o.enemies[f] = enemies[f]
              /\ o.players = [players EXCEPT ![s].copper = players[s].copper + 10]
              /\ o.items = items /\ o.sockets = sockets /\ o.closing = closing /\ o.crashed = crashed
              /\ Len(o.emitted) = 3
              /\ \E i \in Emitted(o, "updateCopper") :
                   o.emitted[i].to = s /\ o.emitted[i].val = players[s].copper + 10
              /\ \E i \in Emitted(o, "rewardCode") : o.emitted[i].to = s
              /\ \E i \in Emitted(o, "enemyKilled") : o.emitted[i].to = ToAll /\ o.emitted[i].id = e
         ELSE o = [Before EXCEPT !.enemies = [enemies EXCEPT ![e].health = health]]

\* C7 happens: an Enemy has been killed and its killer holds the reward
C7_Witness ==
  /\ \E e \in EnemyIds : e \notin DOMAIN enemies
  /\ \E s \in DOMAIN players : players[s].copper = 10


-----------------------------------------------------------------------------
\* C8: acceptTrade has an effect only when the caller is the recipient named
\* in the PendingTrade of the named sender; from the sender itself, from a
\* third Player, or for a sender that is gone or has no PendingTrade, it sends
\* tradeError to the caller only and changes no inventory and no PendingTrade.
C8_AcceptOnlyByRecipient ==
  \A s \in sockets, senderId \in SocketIds \cup {NoId} :
    LET o == onAcceptTrade(s, senderId)
        named == /\ senderId \in DOMAIN players
                 /\ players[senderId].pendingTrade # NoTrade
                 /\ players[senderId].pendingTrade[1].recipientId = s
    IN ~named => StoresUnchanged(o) /\ OnlyTo(o, "tradeError", s)

\* C8 happens: a Player holding an item accepts a trade whose sender, holding
\* an item too, named somebody else, and is refused
C8_Witness ==
  \E s \in sockets \cap DOMAIN players, senderId \in DOMAIN players :
    /\ s # senderId
    /\ players[senderId].pendingTrade # NoTrade
    /\ players[senderId].pendingTrade[1].recipientId # s
    /\ players[s].inventory # <<>>
    /\ OnlyTo(onAcceptTrade(s, senderId), "tradeError", s)

-----------------------------------------------------------------------------
\* the tradeRequest payloads
TradeRequests ==
  [recipientId : SocketIds \cup {NoId}, offeredItemIndex : TradeIndices,
   requestedItemIndex : TradeIndices]

\* the tradeRequest payloads of a client that also names the key "length"
KeyedTradeRequests ==
  [recipientId : SocketIds \cup {NoId}, offeredItemIndex : TradeKeys,
   requestedItemIndex : TradeKeys]

\* sender and recipient exist and both indices name a slot that holds an item
Tradable(s, data) ==
  /\ s \in DOMAIN players
  /\ data.recipientId \in DOMAIN players
  /\ data.offeredItemIndex \in 0..(Len(players[s].inventory) - 1)
  /\ data.requestedItemIndex \in 0..(Len(players[data.recipientId].inventory) - 1)
  /\ players[s].inventory[data.offeredItemIndex + 1] \in ItemIds
  /\ players[data.recipientId].inventory[data.requestedItemIndex + 1] \in ItemIds

C9_Witness ==
  \E s \in sockets \cap DOMAIN players, data \in TradeRequests :
    /\ players[s].pendingTrade # NoTrade
    /\ data.recipientId \in DOMAIN players
    /\ HasSlot(players[s].inventory, data.offeredItemIndex)
    /\ data.requestedItemIndex >= Len(players[data.recipientId].inventory)
    /\ onTradeRequest(s, data).players[s].pendingTrade = players[s].pendingTrade
    /\ OnlyTo(onTradeRequest(s, data), "tradeError", s)

-----------------------------------------------------------------------------
\* the sender senderId is live and its PendingTrade names the connection s
Named(s, senderId) ==
  /\ senderId \in DOMAIN players
  /\ players[senderId].pendingTrade # NoTrade
  /\ players[senderId].pendingTrade[1].recipientId = s

\* C11: declineTrade(senderId) by the recipient named in the sender's
\* PendingTrade clears that PendingTrade, sends tradeDeclined to the sender and
\* changes no inventory and nothing else; a sender without a PendingTrade, as
\* the decline leaves it, has every acceptTrade for it rejected; a decline by
\* anyone else leaves the PendingTrade, and every store, as it was.
C11_DeclineEndsTrade ==
  \A s \in sockets, senderId \in SocketIds \cup {NoId} :
    LET o == onDeclineTrade(s, senderId) IN
    /\ Named(s, senderId) =>
         /\ o = [Before EXCEPT !.players = [players EXCEPT ![senderId].pendingTrade = NoTrade],
                               !.emitted = o.emitted]
         /\ OnlyTo(o, "tradeDeclined", senderId)
         /\ o.emitted[1].id = s
    /\ ~Named(s, senderId) => StoresUnchanged(o)
    /\ (senderId \in DOMAIN players /\ players[senderId].pendingTrade = NoTrade) =>
         /\ StoresUnchanged(onAcceptTrade(s, senderId))
         /\ OnlyTo(onAcceptTrade(s, senderId), "tradeError", s)

\* C11 happens: a Player has a PendingTrade with another Player, who holds the
\* requested item and declines
C11_Witness ==
  \E s \in sockets \cap DOMAIN players, senderId \in DOMAIN players :
    /\ s # senderId
    /\ Named(s, senderId)
    /\ onDeclineTrade(s, senderId).players[senderId].pendingTrade = NoTrade
    /\ OnlyTo(onDeclineTrade(s, senderId), "tradeDeclined", senderId)

-----------------------------------------------------------------------------
C12_Witness ==
  \E s \in sockets \cap DOMAIN players, data \in TradeRequests :
    /\ players[s].pendingTrade # NoTrade
    /\ players[s].pendingTrade[1].recipientId # data.recipientId
    /\ players[s].pendingTrade[1].recipientId \in DOMAIN players
    /\ Tradable(s, data)
    /\ onTradeRequest(s, data).players[s].pendingTrade = << data >>
    /\ TradeSwapped(onAcceptTrade(players[s].pendingTrade[1].recipientId, s),
                    players[s].pendingTrade[1].recipientId, s)

-----------------------------------------------------------------------------
\* C13: of the pickupItem requests of Players that name one item, the one
\* processed first, while the item lies in the world, appends it to the
\* requester's inventory and removes it from the world; every later one, from
\* whoever, finds it gone and changes nothing; so the item is never in the
\* world and in an inventory at once, nor in two inventory slots.
C13_PickupOnce ==
  \A id \in ItemIds :
    /\ Holdings(id) + (IF id \in items THEN 1 ELSE 0) <= 1
    /\ \A s \in sockets :
         LET o == onPickupItem(s, id) IN
         IF id \in items
         THEN s \in DOMAIN players =>
                /\ o = [Before EXCEPT !.players = [players EXCEPT ![s].inventory = Append(@, id)],
                                      !.items = items \ {id},
                                      !.emitted = o.emitted]
                /\ OnlyTo(o, "itemPickedUp", ToAll)
         ELSE o = Before

\* C13 happens: one Player holds an item and another Player asks for it
C13_Witness ==
  \E id \in ItemIds, s \in sockets \cap DOMAIN players, t \in DOMAIN players :
    /\ s # t
    /\ id \notin items
    /\ \E k \in 1..Len(players[t].inventory) : players[t].inventory[k] = id
    /\ onPickupItem(s, id) = Before

-----------------------------------------------------------------------------
\* the ticks that can happen: an elapsed time and the random draws of each enemy
Ticks == [dt : DeltaTimes, draws : [EnemyIds -> Draws]]

\* the square of the Euclidean distance between a and b
Dist2(a, b) == (a.x - b.x) * (a.x - b.x) + (a.y - b.y) * (a.y - b.y)

\* C14: on every tick and for every Enemy, if the Players in the store, as the
\* update of that Enemy finds it, include one at Euclidean distance < 500, then
\* after the tick the Enemy's action is 'chase' and its targetPlayerId is a
\* Player of that store at the least distance, whatever action and timer the
\* Enemy had before the tick.
C14_Aggro ==
  \A t \in Ticks, k \in 0..(NumEnemies - 1) :
    LET st == EnemiesDone(k, t.dt, t.draws)
        id == EnemyId(k)
        o == gameLoop(t.dt, t.draws)
    IN (id \in DOMAIN st.enemies
        /\ \E p \in DOMAIN st.players : Dist2(st.players[p], st.enemies[id]) < 500 * 500) =>
         /\ id \in DOMAIN o.enemies
         /\ o.enemies[id].aiState.action = "chase"
         /\ o.enemies[id].targetPlayerId \in DOMAIN st.players
         /\ \A q \in DOMAIN st.players :
              Dist2(st.players[o.enemies[id].targetPlayerId], st.enemies[id])
                <= Dist2(st.players[q], st.enemies[id])

\* C14 happens: an Enemy that wanders with time left on its timer has a Player
\* within 500 units, and the tick turns it to chasing that Player
C14_Witness ==
  \E t \in Ticks, id \in DOMAIN enemies, p \in DOMAIN players :
    /\ enemies[id].aiState.action = "move"
    /\ enemies[id].aiState.timer - t.dt > 0
    /\ Dist2(players[p], enemies[id]) < 500 * 500
    /\ gameLoop(t.dt, t.draws).enemies[id].aiState.action = "chase"
    /\ gameLoop(t.dt, t.draws).enemies[id].targetPlayerId = p

-----------------------------------------------------------------------------
\* the four corners of the bounding box (64 by 64) of an Enemy centred at (x, y)
Corners(x, y) == { <<x - 32, y - 32>>, <<x + 32, y - 32>>, <<x - 32, y + 32>>, <<x + 32, y + 32>> }

\* the point c lies outside the grid or on a WALL tile of it
OnWall(c) ==
  \/ c[1] < 0 \/ c[1] >= 200 * 64 \/ c[2] < 0 \/ c[2] >= 200 * 64
  \/ gameWorld[c[2] \div 64][c[1] \div 64] = TILE_WALL

\* the point c lies on a FLOOR or a DOOR tile of the grid
OnFloorOrDoor(c) ==
  /\ c[1] >= 0 /\ c[1] < 200 * 64 /\ c[2] >= 0 /\ c[2] < 200 * 64
  /\ gameWorld[c[2] \div 64][c[1] \div 64] \in {TILE_FLOOR, TILE_DOOR}

\* C15: a tick changes an Enemy's position only to one none of whose four
\* corners lies on a WALL tile or outside the grid; when a corner of the
\* proposed position does, x and y both stay as they were, with no move along
\* one axis, while the AI action and timer are updated all the same; a proposed
\* position whose corners are all on FLOOR or DOOR tiles is taken.
C15_WallCollision ==
  \A t \in Ticks, k \in 0..(NumEnemies - 1) :
    LET st == EnemiesDone(k, t.dt, t.draws)
        id == EnemyId(k)
        o == gameLoop(t.dt, t.draws)
    IN id \in DOMAIN st.enemies =>
       LET e0 == st.enemies[id]
           e1 == o.enemies[id]
           ai == NextAi(st.players, e0, t.dt, t.draws[id])
           d == Movement(st.players, ai, t.dt, t.draws[id]).d
           blocked == \E c \in Corners(e0.x + d[1], e0.y + d[2]) : OnWall(c)
       IN /\ (e1.x # e0.x \/ e1.y # e0.y) => \A c \in Corners(e1.x, e1.y) : OnFloorOrDoor(c)
          /\ blocked => e1.x = e0.x /\ e1.y = e0.y
          /\ (\A c \in Corners(e0.x + d[1], e0.y + d[2]) : OnFloorOrDoor(c)) =>
               e1.x = e0.x + d[1] /\ e1.y = e0.y + d[2]
          /\ e1.aiState = ai.aiState
          /\ e1.aiState.timer \in {e0.aiState.timer - t.dt, t.draws[id].timer}

\* C15 happens: an Enemy chases a Player on the other side of a wall; the
\* diagonal step is blocked by the wall, the step along y alone would be free,
\* and the Enemy stays where it is while it turns to chasing
C15_Witness ==
  \E t \in Ticks, id \in DOMAIN enemies :
    LET e0 == enemies[id]
        e1 == gameLoop(t.dt, t.draws).enemies[id]
        d == Movement(players, NextAi(players, e0, t.dt, t.draws[id]), t.dt, t.draws[id]).d
    IN /\ d[1] # 0 /\ d[2] # 0
       /\ \E c \in Corners(e0.x + d[1], e0.y + d[2]) : OnWall(c)
       /\ \A c \in Corners(e0.x, e0.y + d[2]) : OnFloorOrDoor(c)
       /\ e1.x = e0.x /\ e1.y = e0.y
       /\ e0.aiState.action # "chase" /\ e1.aiState.action = "chase"

-----------------------------------------------------------------------------
\* the ticks of the jittering game loop
JitterTicks == [dt : JitterTimes, draws : [EnemyIds -> Draws]]

\* the Enemy id strikes in the tick whose outcome is o
Attacks(o, id) ==
  \E i \in 1..Len(o.emitted) : o.emitted[i].ev = "enemyAttack" /\ o.emitted[i].id = id

\* C16: an Enemy deals melee damage only on a tick where it has a target Player
\* within 50 units of the position it has after the tick's movement and, if it
\* attacked before, at least 1 second after that attack; attackCooldown holds
\* the time of its last attack, so two attacks of one Enemy are never less than
\* 1 second apart; an Enemy that has never attacked strikes at once when its
\* target is in range; and a tick takes health from a Player only by an attack.
C16_AttackCooldown ==
  \A t \in JitterTicks :
    LET o == gameLoop(t.dt, t.draws)
        now == lastUpdateTime + t.dt
    IN /\ (\A id \in DOMAIN enemies : ~Attacks(o, id)) => o.players = players
       /\ \A k \in 0..(NumEnemies - 1) :
            EnemyId(k) \in DOMAIN enemies =>
            LET id == EnemyId(k)
                ps == EnemiesDone(k, t.dt, t.draws).players
                e0 == enemies[id]
                e1 == o.enemies[id]
                inRange == /\ e1.targetPlayerId \in DOMAIN ps
                           /\ Dist2(ps[e1.targetPlayerId], e1) < 50 * 50
            IN /\ Attacks(o, id) =>
                    /\ inRange
                    /\ e0.attackCooldown = NoCooldown \/ now - e0.attackCooldown >= 1000
                    /\ e1.attackCooldown = now
               /\ ~Attacks(o, id) => e1.attackCooldown = e0.attackCooldown
               /\ (e0.attackCooldown = NoCooldown /\ inRange) => Attacks(o, id)
               /\ e0.attackCooldown # NoCooldown => e0.attackCooldown <= lastUpdateTime

\* C16 happens: an Enemy that attacked in an earlier tick attacks again, more
\* than a second after that attack
C16_Witness ==
  \E t \in JitterTicks, id \in DOMAIN enemies :
    /\ enemies[id].attackCooldown # NoCooldown
    /\ lastUpdateTime > enemies[id].attackCooldown
    /\ lastUpdateTime + t.dt - enemies[id].attackCooldown > 1000
    /\ Attacks(gameLoop(t.dt, t.draws), id)

-----------------------------------------------------------------------------
\* C17: a Player who stands inside a safe zone and is, after the movement of
\* the tick, the target of a chasing Enemy less than 50 units away that has
\* never attacked or attacked more than 1000 ms ago, loses health on that tick
\* (or is removed by it), while no attack of a Player on that Player changes
\* anything.
C17_EnemyIgnoresSafeZone ==
  \A t \in Ticks, k \in 0..(NumEnemies - 1) :
    EnemyId(k) \in DOMAIN enemies =>
    LET id == EnemyId(k)
        ps == EnemiesDone(k, t.dt, t.draws).players
        o == gameLoop(t.dt, t.draws)
        e1 == o.enemies[id]
        p == e1.targetPlayerId
        now == lastUpdateTime + t.dt
    IN (/\ p \in DOMAIN ps
        /\ e1.aiState.action = "chase"
        /\ isInSafeZone(ps[p].x, ps[p].y)
        /\ Dist2(ps[p], e1) < 50 * 50
        /\ enemies[id].attackCooldown = NoCooldown \/ now - enemies[id].attackCooldown > 1000) =>
         /\ p \notin DOMAIN o.players \/ o.players[p].health < ps[p].health
         /\ \A s \in sockets \cap DOMAIN players, weapon \in Weapons :
              p \in DOMAIN players =>
                StoresUnchanged(onAttack(s, [targetId |-> p, weapon |-> weapon]))

\* C17 happens: a Player in the safe zone, whom a Player outside it is refused
\* to attack, is struck by an Enemy and left with less health
C17_Witness ==
  \E t \in Ticks, p \in DOMAIN players, s \in sockets \cap DOMAIN players :
    /\ isInSafeZone(players[p].x, players[p].y)
    /\ ~isInSafeZone(players[s].x, players[s].y)
    /\ OnlyTo(onAttack(s, [targetId |-> p, weapon |-> <<50>>]), "attackError", s)
    /\ p \in DOMAIN gameLoop(t.dt, t.draws).players
    /\ gameLoop(t.dt, t.draws).players[p].health < players[p].health
    /\ \E id \in DOMAIN enemies : Attacks(gameLoop(t.dt, t.draws), id)

-----------------------------------------------------------------------------
\* the playerKilled broadcasts of an outcome that name Player p
Killed(o, p) ==
  { i \in Emitted(o, "playerKilled") : o.emitted[i].id = p /\ o.emitted[i].to = ToAll }

-----------------------------------------------------------------------------
\* the slots of an inventory that hold a shield
Shields(inv) == { k \in 1..Len(inv) : ItemType(inv[k]) = "shield" }

\* what a hit of baseDamage takes from the holder of inv: the defense of the
\* first shield of inv is taken off, down to 0
HealthLost(baseDamage, inv) ==
  IF Shields(inv) = {} THEN baseDamage
  ELSE LET first == CHOOSE k \in Shields(inv) : \A j \in Shields(inv) : k <= j
       IN Max(0, baseDamage - ItemDefense(inv[first]))

\* the target of a hit is left with its health less HealthLost, or is removed
\* because that is 0 or below
Hit(before, after, p, baseDamage) ==
  LET health == before[p].health - HealthLost(baseDamage, before[p].inventory)
  IN IF p \in DOMAIN after THEN after[p].health = health ELSE health <= 0

-----------------------------------------------------------------------------
\* C20: an attack that lands on an Enemy takes weapon.damage from its health
\* whenever the weapon of the payload carries a damage, the damage 0 included,
\* and takes the default 10 only when the payload carries none.
C20_WeaponDamage ==
  \A s \in sockets \cap DOMAIN players, id \in DOMAIN enemies, weapon \in Weapons :
    LET a == onAttack(s, [targetId |-> id, weapon |-> weapon])
        base == IF weapon = <<>> THEN 10 ELSE weapon[1]
    IN Emitted(a, "attackError") = {} /\ a.crashed = crashed =>
         IF id \in DOMAIN a.enemies
         THEN a.enemies[id].health = enemies[id].health - base
         ELSE enemies[id].health - base <= 0

-----------------------------------------------------------------------------
\* C21: an attack that arrives on a connection with no Player record ends
\* without an uncaught exception and changes no Player, Enemy or item.
C21_AttackWithoutPlayer ==
  \A s \in sockets \ DOMAIN players, targetId \in TargetIds, weapon \in Weapons :
    StoresUnchanged(onAttack(s, [targetId |-> targetId, weapon |-> weapon]))

-----------------------------------------------------------------------------
\* C22: an attack of a Player outside every safe zone whose targetId names no
\* stored Player and no stored Enemy changes nothing and sends one error
\* event, to the connection of the attacker only.
C22_MissingTargetReported ==
  \A s \in sockets \cap DOMAIN players, targetId \in TargetIds, weapon \in Weapons :
    LET o == onAttack(s, [targetId |-> targetId, weapon |-> weapon]) IN
    /\ ~isInSafeZone(players[s].x, players[s].y)
    /\ targetId \notin DOMAIN players
    /\ targetId \notin DOMAIN enemies
    => /\ StoresUnchanged(o)
       /\ OnlyTo(o, "attackError", s)

-----------------------------------------------------------------------------
\* the Players of the store that are on a connection
LivePlayers == sockets \cap DOMAIN players

\* C23: the Player that a connection creates is stored under the id of the
\* connection, with health and maxHealth 100, an empty inventory, copper 0, no
\* pending trade and a position inside the safe zone, whatever point of the
\* spawn area is drawn, and leaves the other Players as they were; a Player
\* that no movement report has reached yet is inside the safe zone, so its
\* attacks and the attacks of Players on it are refused and change nothing.
C23_NewPlayer ==
  /\ \A p \in SpawnPoints \cup SpawnCorners :
       LET id == SocketId(nextSocket)
           o == onConnection(id, p)
       IN /\ id \notin DOMAIN players
          /\ DOMAIN o.players = DOMAIN players \cup {id}
          /\ \A s \in DOMAIN players : o.players[s] = players[s]
          /\ o.players[id].id = id
          /\ o.players[id].health = 100
          /\ o.players[id].maxHealth = 100
          /\ o.players[id].inventory = <<>>
          /\ o.players[id].copper = 0
          /\ o.players[id].pendingTrade = NoTrade
          /\ o.players[id].x = p[1] /\ o.players[id].y = p[2]
          /\ isInSafeZone(o.players[id].x, o.players[id].y)
  /\ \A s \in DOMAIN players :
       players[s].frameIndex = NoFrame =>
         /\ isInSafeZone(players[s].x, players[s].y)
         /\ \A a \in LivePlayers, targetId \in TargetIds, weapon \in Weapons :
              a = s \/ targetId = s =>
                LET o == onAttack(a, [targetId |-> targetId, weapon |-> weapon]) IN
                /\ StoresUnchanged(o)
                /\ OnlyTo(o, "attackError", a)

\* C23 happens: a Player who has left the safe zone attacks a Player that no
\* movement report has reached since its connection, and is refused
C23_Witness ==
  \E s \in DOMAIN players, a \in LivePlayers :
    /\ players[s].frameIndex = NoFrame
    /\ players[s] = NewPlayer(s, <<players[s].x, players[s].y>>)
    /\ ~isInSafeZone(players[a].x, players[a].y)
    /\ OnlyTo(onAttack(a, [targetId |-> s, weapon |-> <<50>>]), "attackError", a)
    /\ StoresUnchanged(onAttack(a, [targetId |-> s, weapon |-> <<50>>]))

-----------------------------------------------------------------------------
\* movement reports that no honest client sends: a position on the border wall
\* with health above the maximum, and a position off the world with a negative
\* health and a direction that is none of the four
UncheckedReports ==
  { Report(0, 0, DIR_DOWN, 0, 1000), Report(-64, 13000, 7, -3, -100) }

\* C24: a movement report sets the x, y, direction, frameIndex and health of
\* the sender to the reported values, whatever they are, leaves the sender's
\* inventory, copper and pending trade, the other Players, the Enemies and the
\* items as they were, and is sent on as one playerMoved to the other
\* connections; from a connection without a Player record it does nothing.
C24_MovementReport ==
  \A s \in sockets, data \in MovementReports \cup UncheckedReports :
    LET o == onPlayerMovement(s, data) IN
    IF s \in DOMAIN players
    THEN /\ DOMAIN o.players = DOMAIN players
         /\ o.players[s].x = data.x
         /\ o.players[s].y = data.y
         /\ o.players[s].direction = data.direction
         /\ o.players[s].frameIndex = data.frameIndex
         /\ o.players[s].health = data.health
         /\ o.players[s].id = players[s].id
         /\ o.players[s].maxHealth = players[s].maxHealth
         /\ o.players[s].inventory = players[s].inventory
         /\ o.players[s].copper = players[s].copper
         /\ o.players[s].pendingTrade = players[s].pendingTrade
         /\ \A p \in DOMAIN players \ {s} : o.players[p] = players[p]
         /\ o.enemies = enemies
         /\ o.items = items
         /\ o.sockets = sockets /\ o.closing = closing /\ o.crashed = crashed
         /\ Len(o.emitted) = 1
         /\ o.emitted[1].ev = "playerMoved"
         /\ o.emitted[1].to = ToOthers(s)
         /\ o.emitted[1].id = s
         /\ o.emitted[1].val = data.health
    ELSE StoresUnchanged(o) /\ o.emitted = <<>>

\* C24 happens: a Player who holds an item, with another Player in the store,
\* reports a negative health, which is stored and changes nothing else
C24_Witness ==
  \E s \in LivePlayers, data \in MovementReports :
    /\ players[s].inventory # <<>>
    /\ data.health < 0
    /\ players[s].health > 0
    /\ onPlayerMovement(s, data).players[s].health = data.health
    /\ onPlayerMovement(s, data).players[s].inventory = players[s].inventory
    /\ \E p \in DOMAIN players \ {s} : onPlayerMovement(s, data).players[p] = players[p]

-----------------------------------------------------------------------------
\* C25: a tick sends updateEnemies once, to all connections, as its last
\* event, and what it sends is the Enemies of the store as the update of the
\* tick left them; a tick adds no Enemy to the store and removes none, and no
\* step puts back an Enemy that has left the store, so an Enemy that an attack
\* removed is in the update and in the broadcast of no later tick.
C25_TickBroadcast ==
  /\ [](\A t \in Ticks :
         LET o == gameLoop(t.dt, t.draws)
             st == EnemiesDone(NumEnemies, t.dt, t.draws)
             last == o.emitted[Len(o.emitted)]
         IN /\ Cardinality(Emitted(o, "updateEnemies")) = 1
            /\ last.ev = "updateEnemies"
            /\ last.to = ToAll
            /\ Len(last.inv) = Cardinality(DOMAIN o.enemies)
            /\ \A id \in DOMAIN o.enemies : \E i \in 1..Len(last.inv) : last.inv[i] = o.enemies[id]
            /\ o.enemies = st.enemies
            /\ o.players = st.players
            /\ DOMAIN o.enemies = DOMAIN enemies)
  /\ [][DOMAIN enemies' \subseteq DOMAIN enemies]_vars

\* C25 happens: after an attack has removed the Enemy, a tick broadcasts an
\* empty Enemy set
C25_Witness ==
  /\ DOMAIN enemies = {}
  /\ \E t \in Ticks :
       LET o == gameLoop(t.dt, t.draws) IN
       /\ Len(o.emitted) = 1
       /\ o.emitted[1].ev = "updateEnemies"
       /\ o.emitted[1].inv = <<>>

-----------------------------------------------------------------------------
\* the index of the tile that holds the coordinate v: floor(v / 64)
TileIndex(v) == CHOOSE t \in (-4)..(200 + 4) : 64 * t <= v /\ v < 64 * (t + 1)

\* the tile index t is one of the grid
InGrid(t) == t >= 0 /\ t < 200

\* what the lookup of the point c has to give: WALL outside the grid, the
\* generated cell inside
TileExpected(c) ==
  IF InGrid(TileIndex(c[1])) /\ InGrid(TileIndex(c[2]))
  THEN GeneratedTile(TileIndex(c[1]), TileIndex(c[2]))
  ELSE TILE_WALL

\* coordinates at and around the edges of the grid and of its first tiles
ProbeCoords ==
  { -129, -65, -64, -1, 0, 63, 64, 1279, 1280, 3839, 12735, 12736, 12799, 12800, 12863, 12864 }

\* the lookup at the probe points and at the first and last point of every cell
GridLookup ==
  /\ \A x \in ProbeCoords, y \in ProbeCoords : getTileAt(x, y) = TileExpected(<<x, y>>)
  /\ \A tx \in 0..199, ty \in 0..199 :
       /\ getTileAt(64 * tx, 64 * ty) = GeneratedTile(tx, ty)
       /\ getTileAt(64 * tx + 63, 64 * ty + 63) = GeneratedTile(tx, ty)

\* C26: getTileAt gives WALL for every coordinate whose tile index
\* floor(x/64), floor(y/64) is outside 0..199 in either axis, negative
\* coordinates included, and the generated cell for every coordinate inside;
\* so it does at every corner of every position an Enemy tries to take.
C26_TileLookup ==
  /\ GridLookup
  /\ \A t \in Ticks, id \in DOMAIN enemies :
       LET ai == NextAi(players, enemies[id], t.dt, t.draws[id])
           d == Movement(players, ai, t.dt, t.draws[id]).d
       IN \A c \in Corners(enemies[id].x + d[1], enemies[id].y + d[2]) :
            /\ getTileAt(c[1], c[2]) = TileExpected(c)
            /\ (c[1] < 0 \/ c[2] < 0 \/ c[1] >= 12800 \/ c[2] >= 12800) =>
                 /\ getTileAt(c[1], c[2]) = TILE_WALL
                 /\ gameLoop(t.dt, t.draws).enemies[id].x = enemies[id].x
                 /\ gameLoop(t.dt, t.draws).enemies[id].y = enemies[id].y

\* C26 happens: an Enemy tries a move that puts a corner of its box at negative
\* coordinates, the lookup there gives WALL and the Enemy stays where it is
C26_Witness ==
  \E t \in Ticks, id \in DOMAIN enemies :
    LET ai == NextAi(players, enemies[id], t.dt, t.draws[id])
        d == Movement(players, ai, t.dt, t.draws[id]).d
    IN /\ d # <<0, 0>>
       /\ \E c \in Corners(enemies[id].x + d[1], enemies[id].y + d[2]) :
            c[1] < 0 /\ c[2] < 0 /\ getTileAt(c[1], c[2]) = TILE_WALL
       /\ gameLoop(t.dt, t.draws).enemies[id].x = enemies[id].x
       /\ gameLoop(t.dt, t.draws).enemies[id].y = enemies[id].y

-----------------------------------------------------------------------------
\* the two grids have the same cells and the two lookups give the same tile at
\* the probe points and at the first and last point of every cell
GridsEqual ==
  /\ DOMAIN gameWorld = DOMAIN clientGameWorld
  /\ \A ty \in 0..199 :
       /\ DOMAIN gameWorld[ty] = DOMAIN clientGameWorld[ty]
       /\ \A tx \in 0..199 :
            /\ gameWorld[ty][tx] = clientGameWorld[ty][tx]
            /\ getTileAt(64 * tx, 64 * ty) = clientGetTileAt(64 * tx, 64 * ty)
            /\ getTileAt(64 * tx + 63, 64 * ty + 63) = clientGetTileAt(64 * tx + 63, 64 * ty + 63)
  /\ \A x \in ProbeCoords, y \in ProbeCoords : getTileAt(x, y) = clientGetTileAt(x, y)

\* C27: the grid the server generates and the grid the client generates hold
\* the same tile in every cell of the 200 x 200 grid, and the getTileAt of the
\* server and that of the client give the same tile for a coordinate, among
\* them every coordinate the server looks up when an Enemy tries a move.
C27_SameWorld ==
  /\ GridsEqual
  /\ \A t \in Ticks, id \in DOMAIN enemies :
       LET ai == NextAi(players, enemies[id], t.dt, t.draws[id])
           d == Movement(players, ai, t.dt, t.draws[id]).d
       IN \A c \in Corners(enemies[id].x + d[1], enemies[id].y + d[2]) :
            getTileAt(c[1], c[2]) = clientGetTileAt(c[1], c[2])

\* C27 happens: an Enemy tries a move that puts its box partly on the wall of a
\* room and partly on floor, and the client's lookup tells the two apart as the
\* server's does
C27_Witness ==
  \E t \in Ticks, id \in DOMAIN enemies :
    LET ai == NextAi(players, enemies[id], t.dt, t.draws[id])
        d == Movement(players, ai, t.dt, t.draws[id]).d
        cs == Corners(enemies[id].x + d[1], enemies[id].y + d[2])
    IN /\ d # <<0, 0>>
       /\ \E c \in cs : getTileAt(c[1], c[2]) = TILE_WALL /\ clientGetTileAt(c[1], c[2]) = CLIENT_TILE_WALL
       /\ \E c \in cs : getTileAt(c[1], c[2]) = TILE_FLOOR /\ clientGetTileAt(c[1], c[2]) = CLIENT_TILE_FLOOR
       /\ gameLoop(t.dt, t.draws).enemies[id].x = enemies[id].x

-----------------------------------------------------------------------------
\* C28: at every time from the end of start-up on, every cell of the border of
\* the grid is WALL and every room has a DOOR in the cell of its left edge at
\* column x and row y + floor(height / 2).
C28_BorderAndDoors ==
  lastUpdateTime >= 0 =>
  /\ \A t \in 0..199 :
       /\ gameWorld[0][t] = TILE_WALL /\ gameWorld[199][t] = TILE_WALL
       /\ gameWorld[t][0] = TILE_WALL /\ gameWorld[t][199] = TILE_WALL
  /\ \A k \in 1..Len(Rooms) :
       gameWorld[Rooms[k].y + (Rooms[k].height \div 2)][Rooms[k].x] = TILE_DOOR


-----------------------------------------------------------------------------
\* C29: with an Enemy at (0,0) and one Player, at (100,0), a tick leaves the
\* Enemy in action 'chase' and with a greater x than before.
C29_ScenarioChase ==
  \A t \in Ticks, id \in DOMAIN enemies, p \in DOMAIN players :
    /\ DOMAIN players = {p}
    /\ players[p].x = 100 /\ players[p].y = 0
    /\ enemies[id].x = 0 /\ enemies[id].y = 0
    => /\ gameLoop(t.dt, t.draws).enemies[id].aiState.action = "chase"
       /\ gameLoop(t.dt, t.draws).enemies[id].x > enemies[id].x

-----------------------------------------------------------------------------
\* the displacement (dx, dy) is along the cardinal direction: 0 is down (+y),
\* 1 is left (-x), 2 is right (+x), 3 is up (-y)
AlongCardinal(direction, dx, dy) ==
  \/ direction = 0 /\ dx = 0 /\ dy >= 0
  \/ direction = 1 /\ dy = 0 /\ dx <= 0
  \/ direction = 2 /\ dy = 0 /\ dx >= 0
  \/ direction = 3 /\ dx = 0 /\ dy <= 0

\* C30: on a tick that finds no Player at distance < 500 of an Enemy whose
\* timer is 0 or less, the Enemy's action becomes idle or move, its timer a
\* time from 1 s up to but not 3 s, its stored direction one of 0..3, each as
\* drawn, and its targetPlayerId is cleared; after any tick an Enemy in idle
\* is where it was and an Enemy in move is displaced, if at all, along its
\* stored cardinal direction only.
C30_RandomWalk ==
  \A t \in Ticks, k \in 0..(NumEnemies - 1) :
    LET st == EnemiesDone(k, t.dt, t.draws)
        id == EnemyId(k)
        o == gameLoop(t.dt, t.draws)
    IN id \in DOMAIN st.enemies =>
       LET e0 == st.enemies[id]
           e1 == o.enemies[id]
       IN /\ (e0.aiState.timer <= 0
              /\ \A p \in DOMAIN st.players : Dist2(st.players[p], e0) >= 500 * 500) =>
                /\ e1.aiState.action \in {"idle", "move"}
                /\ e1.aiState.action = t.draws[id].action
                /\ e1.aiState.timer >= 1000 /\ e1.aiState.timer < 3000
                /\ e1.aiState.timer = t.draws[id].timer
                /\ e1.aiState.direction \in 0..3
                /\ e1.aiState.direction = t.draws[id].direction
                /\ e1.targetPlayerId = NoId
          /\ e1.aiState.action = "idle" => e1.x = e0.x /\ e1.y = e0.y
          /\ e1.aiState.action = "move" =>
               AlongCardinal(e1.aiState.direction, e1.x - e0.x, e1.y - e0.y)

\* C30 happens: an Enemy that chased a Player, who has since gone more than
\* 500 units away, draws the action move, drops its target and takes a step
\* along the direction drawn
C30_Witness ==
  \E t \in Ticks, id \in DOMAIN enemies :
    LET e1 == gameLoop(t.dt, t.draws).enemies[id] IN
    /\ enemies[id].targetPlayerId \in DOMAIN players
    /\ enemies[id].aiState.action = "chase"
    /\ enemies[id].aiState.timer <= 0
    /\ Dist2(players[enemies[id].targetPlayerId], enemies[id]) >= 500 * 500
    /\ e1.aiState.action = "move"
    /\ e1.targetPlayerId = NoId
    /\ e1.aiState.direction = 0
    /\ e1.x = enemies[id].x /\ e1.y > enemies[id].y

-----------------------------------------------------------------------------
\* C31: a tick that finds a Player at distance < 500 of an Enemy leaves the
\* Enemy's timer at the value it had before the tick; a tick that finds none
\* and a timer that the elapsed time does not bring to 0 or less takes the
\* elapsed time off the timer.
C31_TimerKeptInChase ==
  \A t \in Ticks, k \in 0..(NumEnemies - 1) :
    LET st == EnemiesDone(k, t.dt, t.draws)
        id == EnemyId(k)
        o == gameLoop(t.dt, t.draws)
    IN id \in DOMAIN st.enemies =>
       LET e0 == st.enemies[id]
           e1 == o.enemies[id]
           aggro == \E p \in DOMAIN st.players : Dist2(st.players[p], e0) < 500 * 500
       IN /\ aggro => e1.aiState.timer = e0.aiState.timer
          /\ (~aggro /\ e0.aiState.timer - t.dt > 0) =>
               e1.aiState.timer = e0.aiState.timer - t.dt

-----------------------------------------------------------------------------
\* C32: after a tick in which an Enemy chases a Player, the Enemy faces LEFT
\* or RIGHT if the displacement toward the target has |dx| >= |dy|, a tie
\* included, and faces UP or DOWN if it has |dy| > |dx|.
C32_ChaseFacing ==
  \A t \in Ticks, k \in 0..(NumEnemies - 1) :
    LET st == EnemiesDone(k, t.dt, t.draws)
        id == EnemyId(k)
        o == gameLoop(t.dt, t.draws)
    IN (id \in DOMAIN st.enemies /\ id \in DOMAIN o.enemies) =>
       LET e0 == st.enemies[id]
           e1 == o.enemies[id]
           p == e1.targetPlayerId
       IN (e1.aiState.action = "chase" /\ p \in DOMAIN st.players) =>
            LET dx == Abs(st.players[p].x - e0.x)
                dy == Abs(st.players[p].y - e0.y)
            IN /\ dx >= dy => e1.direction \in {DIR_LEFT, DIR_RIGHT}
               /\ dy > dx => e1.direction \in {DIR_UP, DIR_DOWN}

-----------------------------------------------------------------------------
\* C33: a pickupItem that arrives on a connection with no Player record ends
\* without an uncaught exception, sends nothing and changes nothing: the item
\* it names stays in the world.
C33_PickupWithoutPlayer ==
  \A s \in sockets \ DOMAIN players, itemId \in ItemIds \cup {NoId} :
    LET o == onPickupItem(s, itemId) IN
    /\ StoresUnchanged(o)
    /\ o.emitted = <<>>
    /\ itemId \in items => itemId \in o.items

-----------------------------------------------------------------------------
RECURSIVE CopperOf(_, _)
\* the copper the Players S hold together in the store ps
CopperOf(ps, S) ==
  IF S = {} THEN 0
  ELSE LET s == CHOOSE x \in S : TRUE IN ps[s].copper + CopperOf(ps, S \ {s})

\* the outcome o of an attack rewards somebody
Rewards(o) ==
  \/ Emitted(o, "rewardCode") # {}
  \/ Emitted(o, "updateCopper") # {}
  \/ \E s \in DOMAIN players \cap DOMAIN o.players : o.players[s].copper # players[s].copper

\* C34: an attack of a Player that is lethal to a stored Enemy removes it and
\* rewards that Player, with 10 copper and one rewardCode, and rewards nobody
\* else; an attack of a Player on an Enemy id that is no longer in the store
\* rewards nobody and changes nothing, so of two lethal attacks on one Enemy
\* only the first processed is rewarded, in either order; and the copper the
\* Players hold never exceeds 10 for each Enemy that has left the store.
C34_OneRewardPerEnemy ==
  /\ \A s \in LivePlayers, e \in EnemyIds, weapon \in Weapons :
       LET o == onAttack(s, [targetId |-> e, weapon |-> weapon]) IN
       /\ e \notin DOMAIN enemies => StoresUnchanged(o) /\ ~Rewards(o)
       /\ e \in DOMAIN enemies =>
            /\ (~isInSafeZone(players[s].x, players[s].y)
                /\ enemies[e].health - BaseDamage(weapon) <= 0) => Rewards(o)
            /\ Rewards(o) =>
                 /\ e \notin DOMAIN o.enemies
                 /\ o.players = [players EXCEPT ![s].copper = players[s].copper + 10]
                 /\ Cardinality(Emitted(o, "rewardCode")) = 1
                 /\ \A i \in Emitted(o, "rewardCode") \cup Emitted(o, "updateCopper") :
                      o.emitted[i].to = s
  /\ CopperOf(players, DOMAIN players) <= 10 * Cardinality(EnemyIds \ DOMAIN enemies)

\* C34 happens: an Enemy has been killed and its killer rewarded, and a second
\* Player, outside the safe zone, sends an attack that would have been lethal
\* to it and is not rewarded
C34_Witness ==
  \E e \in EnemyIds \ DOMAIN enemies, a \in LivePlayers, b \in LivePlayers :
    /\ a # b
    /\ players[a].copper = 10
    /\ players[b].copper = 0
    /\ ~isInSafeZone(players[b].x, players[b].y)
    /\ StoresUnchanged(onAttack(b, [targetId |-> e, weapon |-> <<50>>]))
    /\ ~Rewards(onAttack(b, [targetId |-> e, weapon |-> <<50>>]))

-----------------------------------------------------------------------------
\* C35: acceptTrade exchanges what the two recorded slots hold when it runs
\* (C2), so it exchanges the items that the tradeRequest notification described
\* exactly if no step in between has changed what those slots hold: as long as
\* a PendingTrade stays stored, the offered slot of its sender and the
\* requested slot of its recipient keep their items.
C35_TradeAsDescribed ==
  [][\A s \in DOMAIN players \cap DOMAIN players' :
       (players[s].pendingTrade # NoTrade /\ players'[s].pendingTrade = players[s].pendingTrade) =>
         LET t == players[s].pendingTrade[1] IN
         (t.recipientId \in DOMAIN players /\ t.recipientId \in DOMAIN players') =>
           /\ Slot(players'[s].inventory, t.offeredItemIndex) =
                Slot(players[s].inventory, t.offeredItemIndex)
           /\ Slot(players'[t.recipientId].inventory, t.requestedItemIndex) =
                Slot(players[t.recipientId].inventory, t.requestedItemIndex)]_vars


-----------------------------------------------------------------------------
\* C36: the damage of an attack does not depend on the weapon of the payload
\* when the attacker holds no sword: two attacks by the same Player on the same
\* target in the same state that differ only in the weapon of the payload leave
\* the same Players and the same Enemies.
C36_PayloadWeaponIgnored ==
  \A s \in LivePlayers :
    \A targetId \in (DOMAIN players \cup DOMAIN enemies) \ {s}, w1 \in Weapons, w2 \in Weapons :
      LET a == onAttack(s, [targetId |-> targetId, weapon |-> w1])
          b == onAttack(s, [targetId |-> targetId, weapon |-> w2])
      IN (\A i \in 1..Len(players[s].inventory) : ItemType(players[s].inventory[i]) # "sword") =>
           /\ a.enemies = b.enemies
           /\ a.players = b.players


-----------------------------------------------------------------------------
\* C37: every PendingTrade stored on a live Player names a recipient who is a
\* live Player.
C37_RecipientLive ==
  \A s \in DOMAIN players :
    players[s].pendingTrade # NoTrade => players[s].pendingTrade[1].recipientId \in DOMAIN players


-----------------------------------------------------------------------------
\* C38: the inventory of a live Player never shrinks and no slot that has held
\* an item becomes empty, so that an acceptTrade sent by the recipient named in
\* the PendingTrade of a live sender finds both recorded slots holding items
\* and swaps them: the failure branch of the accept is never taken.
C38_SlotsNeverEmptied ==
  [][/\ \A s \in DOMAIN players \cap DOMAIN players' :
          /\ Len(players'[s].inventory) >= Len(players[s].inventory)
          /\ \A k \in 1..Len(players[s].inventory) :
               players[s].inventory[k] \in ItemIds \cup { ThirdItem } =>
                 players'[s].inventory[k] \in ItemIds \cup { ThirdItem }
     /\ \A s \in LivePlayers, senderId \in DOMAIN players :
          NamesRecipient(senderId, s) =>
            LET o == onAcceptTrade(s, senderId) IN
            /\ o.crashed = crashed
            /\ Emitted(o, "tradeSuccess") # {}
            /\ o.players[senderId].pendingTrade = NoTrade]_vars


-----------------------------------------------------------------------------
-----------------------------------------------------------------------------
\* the playerDisconnected broadcasts of the outcome o that name the Player p
Departures(o, p) ==
  { i \in Emitted(o, "playerDisconnected") : o.emitted[i].id = p /\ o.emitted[i].to = ToAll }

\* C39: each removal of a Player from the store results in exactly one
\* playerDisconnected broadcast for that Player: the disconnect of a connection
\* broadcasts it once when it removes the Player, and not at all when the
\* Player was removed, and the broadcast made, by a kill before it.
C39_OneDepartureBroadcast ==
  \A s \in sockets :
    Cardinality(Departures(onDisconnect(s), s)) = IF s \in DOMAIN players THEN 1 ELSE 0


-----------------------------------------------------------------------------
\* the outcome o leaves the copper of every Player it keeps stored as it was
CopperKept(o) ==
  \A p \in DOMAIN players \cap DOMAIN o.players : o.players[p].copper = players[p].copper

\* in the outcome o no Player's copper has decreased, a Player who has joined
\* has none, no Enemy has come back, and the copper gained by the Players
\* together is 10 for each Enemy that has left the store
CopperPaidForKills(o) ==
  LET common == DOMAIN players \cap DOMAIN o.players IN
  /\ \A s \in common : o.players[s].copper >= players[s].copper
  /\ \A s \in DOMAIN o.players \ DOMAIN players : o.players[s].copper = 0
  /\ DOMAIN o.enemies \subseteq DOMAIN enemies
  /\ CopperOf(o.players, common) - CopperOf(players, common) =
       KillReward * (Cardinality(DOMAIN enemies) - Cardinality(DOMAIN o.enemies))

\* C40: copper changes only by +10 for the attacker on an Enemy kill.  In every
\* state the copper of every Player is a non-negative multiple of 10; every
\* event leaves no Player with less copper, brings no Enemy back, and gives the
\* Players together 10 copper for each Enemy it removes, so that the copper
\* awarded so far is always 10 times the number of Enemies that have left the
\* store; and a connection, a disconnect, a movement report, a pickup, a trade
\* message, an attack on a Player and a tick change no Player's copper.
C40_CopperOnlyFromKills ==
  /\ \A s \in DOMAIN players : players[s].copper >= 0 /\ players[s].copper % 10 = 0
  /\ \A p \in SpawnPoints :
       nextSocket <= MaxSockets =>
         LET o == onConnection(SocketId(nextSocket), p) IN CopperPaidForKills(o) /\ CopperKept(o)
  /\ \A s \in sockets :
       /\ \A o \in { onDisconnect(s) }
                   \cup { onPlayerMovement(s, data) : data \in MovementReports }
                   \cup { onPickupItem(s, itemId) : itemId \in ItemIds \cup {NoId} }
                   \cup { onTradeRequest(s, data) : data \in KeyedTradeRequests }
                   \cup { onAcceptTrade(s, senderId) : senderId \in SocketIds \cup {NoId} }
                   \cup { onDeclineTrade(s, senderId) : senderId \in SocketIds \cup {NoId} } :
            CopperPaidForKills(o) /\ CopperKept(o)
       /\ \A targetId \in TargetIds, weapon \in Weapons :
            LET o == onAttack(s, [targetId |-> targetId, weapon |-> weapon]) IN
            /\ CopperPaidForKills(o)
            /\ targetId \notin DOMAIN enemies => CopperKept(o)
  /\ \A dt \in DeltaTimes, draws \in [EnemyIds -> Draws] :
       CopperPaidForKills(gameLoop(dt, draws)) /\ CopperKept(gameLoop(dt, draws))

\* C40 happens: the Enemy has been killed and its killer, who has also picked up
\* an item since connecting, holds the 10 copper of that kill
C40_Witness ==
  \E s \in LivePlayers :
    /\ DOMAIN enemies = {}
    /\ players[s].copper = KillReward
    /\ players[s].inventory # <<>>
    /\ CopperOf(players, DOMAIN players) = KillReward * Cardinality(EnemyIds)

=============================================================================
